---- MODULE Spec2Model ----
(***************************************************************************)
(* The hashmap backend of rclone: a directory tree index (dirMap) and      *)
(* per-directory file tables (dirEntry.files) kept in memory and persisted *)
(* as "map" objects in a wrapped base Fs that stores everything under      *)
(* hashed keys.                                                            *)
(*                                                                         *)
(* Strings are sequences of one-character strings, so that formatting and  *)
(* parsing of the persisted lines, path.Split, path.Join and the hashers   *)
(* are computed character by character.  Pointers to dirEntry objects are  *)
(* indices into a heap; a Go slice is an index into a store of backing     *)
(* arrays plus a length.                                                   *)
(***************************************************************************)
EXTENDS Naturals, Integers, Sequences, FiniteSets, TLC

\* ------------------------------------------------------------------ bounds

\* Base calls that fail in one behaviour.
MaxFaults == 1
\* Operations in one behaviour.
MaxOps == 5
\* Length of a backing array of Children (stale children accumulate).
MaxChildren == 4

\* ----------------------------------------------------------------- strings

NL == "\n"
SL == "/"
SP == " "

\* Byte value of a character (Go compares strings bytewise).
Ord(c) ==
  CASE c = NL -> 10 [] c = SP -> 32 [] c = SL -> 47
    [] c = "0" -> 48 [] c = "1" -> 49 [] c = "2" -> 50 [] c = "3" -> 51
    [] c = "4" -> 52 [] c = "5" -> 53 [] c = "6" -> 54 [] c = "7" -> 55
    [] c = "8" -> 56 [] c = "9" -> 57
    [] c = "a" -> 97 [] c = "b" -> 98 [] c = "c" -> 99 [] c = "d" -> 100
    [] c = "e" -> 101 [] c = "f" -> 102 [] c = "g" -> 103 [] c = "m" -> 109 [] c = "n" -> 110
    [] c = "p" -> 112 [] c = "t" -> 116 [] c = "x" -> 120 [] c = "y" -> 121

\* Two lower-case hex digits of a character's byte (hex.EncodeToString).
HexByte(c) ==
  LET hx == <<"0","1","2","3","4","5","6","7","8","9","a","b","c","d","e","f">>
  IN  <<hx[(Ord(c) \div 16) + 1], hx[(Ord(c) % 16) + 1]>>

RECURSIVE HexString(_)
HexString(s) == IF s = <<>> THEN <<>> ELSE HexByte(Head(s)) \o HexString(Tail(s))

HasPrefix(s, p) == Len(p) <= Len(s) /\ SubSeq(s, 1, Len(p)) = p
HasSuffix(s, p) == Len(p) <= Len(s) /\ SubSeq(s, Len(s) - Len(p) + 1, Len(s)) = p
TrimPrefix(s, p) == IF HasPrefix(s, p) THEN SubSeq(s, Len(p) + 1, Len(s)) ELSE s
TrimSuffix(s, p) == IF HasSuffix(s, p) THEN SubSeq(s, 1, Len(s) - Len(p)) ELSE s
\* strings.Contains(s, c) for a one-character c.
Contains(s, c) == \E i \in 1..Len(s) : s[i] = c
\* Position of the first / last c in s, 0 when there is none.
IndexOf(s, c) ==
  IF Contains(s, c) THEN CHOOSE i \in 1..Len(s) : s[i] = c /\ \A j \in 1..(i-1) : s[j] # c
  ELSE 0
LastIndexOf(s, c) ==
  IF Contains(s, c) THEN CHOOSE i \in 1..Len(s) : s[i] = c /\ \A j \in (i+1)..Len(s) : s[j] # c
  ELSE 0

\* path.Split: the split is right after the final slash.
pathSplit(p) ==
  LET i == LastIndexOf(p, SL)
  IN  [dir |-> SubSeq(p, 1, i), file |-> SubSeq(p, i + 1, Len(p))]

\* path.Clean on strings without "." elements: runs of slashes become one
\* slash and a trailing slash is dropped (the path "/" stays).
RECURSIVE collapseSlashes(_)
collapseSlashes(s) ==
  IF Len(s) < 2 THEN s
  ELSE IF s[1] = SL /\ s[2] = SL THEN collapseSlashes(Tail(s))
  ELSE <<s[1]>> \o collapseSlashes(Tail(s))
pathClean(s) ==
  LET c == collapseSlashes(s)
  IN  IF Len(c) > 1 /\ c[Len(c)] = SL THEN SubSeq(c, 1, Len(c) - 1) ELSE c

\* path.Join: empty elements are ignored, the result is cleaned, and the join
\* of empty elements is the empty string.
RECURSIVE joinElems(_)
joinElems(es) ==
  IF es = <<>> THEN <<>>
  ELSE IF Head(es) = <<>> THEN joinElems(Tail(es))
  ELSE LET r == joinElems(Tail(es))
       IN  IF r = <<>> THEN Head(es) ELSE Head(es) \o <<SL>> \o r
pathJoin(es) == LET j == joinElems(es) IN IF j = <<>> THEN <<>> ELSE pathClean(j)
\* path.Base without "." elements: the last element, "/" for a path of slashes.
pathBase(p) ==
  LET c == pathClean(p) IN IF c = <<SL>> THEN c ELSE pathSplit(c).file

\* Go's string order.
RECURSIVE StrLess(_, _)
StrLess(s, t) ==
  IF t = <<>> THEN FALSE
  ELSE IF s = <<>> THEN TRUE
  ELSE IF s[1] = t[1] THEN StrLess(Tail(s), Tail(t))
  ELSE Ord(s[1]) < Ord(t[1])

\* sort.Strings of the keys of a map.
RECURSIVE SortStrings(_)
SortStrings(S) ==
  IF S = {} THEN <<>>
  ELSE LET m == CHOOSE x \in S : \A y \in S \ {x} : StrLess(x, y)
       IN  <<m>> \o SortStrings(S \ {m})

\* strings.SplitN(entry, " ", 2).
splitN2(entry) ==
  LET i == IndexOf(entry, SP)
  IN  IF i = 0 THEN <<entry>>
      ELSE <<SubSeq(entry, 1, i - 1), SubSeq(entry, i + 1, Len(entry))>>

\* The lines bufio.Reader.ReadString('\n') returns before io.EOF, each without
\* its newline; what follows the last newline comes with io.EOF and is dropped
\* by the reading loops.
RECURSIVE readLines(_)
readLines(s) ==
  LET i == IndexOf(s, NL)
  IN  IF i = 0 THEN <<>>
      ELSE <<SubSeq(s, 1, i - 1)>> \o readLines(SubSeq(s, i + 1, Len(s)))

\* ------------------------------------------------------------------ hashers

hashNone(a) == a
\* The digests are modelled as injective hex strings: two digits that tell the
\* algorithms apart (the first byte of the real digest of "") followed by the
\* hex encoding of the input.  As in the code the result holds only [0-9a-f].
hashMD5(s) == <<"d", "4">> \o HexString(s)
hashSHA1(s) == <<"d", "a">> \o HexString(s)
hashSHA256(s) == <<"e", "3">> \o HexString(s)

HashTypes == {"none", "md5", "sha1", "sha256"}
\* f.hasher as NewFs selects it from opt.HashType.
hasherOf(ht, s) ==
  CASE ht = "none" -> hashNone(s)
    [] ht = "md5" -> hashMD5(s)
    [] ht = "sha1" -> hashSHA1(s)
    [] ht = "sha256" -> hashSHA256(s)

\* ------------------------------------------------------------------- state

VARIABLES
  hashType,  \* opt.HashType, which selects f.hasher
  feat,      \* f.base.Features(): the optional capabilities of the base Fs
  build,     \* which of the two versions of entries.go / dir.go is built
  heap,      \* the dirEntry objects; a pointer is an index, 0 is nil
  arrs,      \* the backing arrays of the Children slices
  Path,      \* f.dirMap.Path: path -> *dirEntry
  Hash,      \* f.dirMap.Hash: hash -> *dirEntry
  objs,      \* the base Fs: object key -> content
  dirs,      \* the base Fs: the directories made by Mkdir
  up,        \* whether the Fs is constructed (NewFs returned it, no panic since)
  faults,    \* failures the base Fs may still produce
  ops,       \* operations still to come
  last,      \* the last operation: its name, arguments and results
  calls      \* the calls of Fs.put in flight in goroutines: caller -> position and locals

vars == <<hashType, feat, build, heap, arrs, Path, Hash, objs, dirs, up, faults, ops, last,
         calls>>

\* f.root as passed to NewFs (rpath).
fsRoot == <<>>

hasher(s) == hasherOf(hashType, s)

NoErr == <<>>
\* errors.Is(err, target): err is the chain of wrapped errors, outermost first.
ErrIs(err, target) == \E i \in 1..Len(err) : err[i] = target
\* fmt.Errorf("msg: %w", err)
Wrap(msg, err) == <<msg>> \o err

MapPut(f, k, v) == [a \in (DOMAIN f) \cup {k} |-> IF a = k THEN v ELSE f[a]]
MapDel(f, k) == [a \in (DOMAIN f) \ {k} |-> f[a]]
EmptyMap == [a \in {} |-> <<>>]

\* The machine an operation runs on: the memory and the base Fs, the number n
\* of base calls made so far in the operation, and the set F of the calls
\* (by their number) that the base Fs fails.
Machine(F) ==
  [heap |-> heap, arrs |-> arrs, Path |-> Path, Hash |-> Hash,
   objs |-> objs, dirs |-> dirs, n |-> 0, F |-> F, panic |-> FALSE, ovf |-> FALSE,
   log |-> <<>>]

Res(M, err, val) == [M |-> M, err |-> err, val |-> val]

\* "v := ...": the rest K of a function body, run with the local variable v.
With(v, K(_)) == K(v)
\* "if err != nil { return err }": the rest K runs when the call returned no error.
Try(r, K(_)) == IF r.err # NoErr THEN r ELSE K(r)
\* "if err != nil { return fmt.Errorf(msg + ": %w", err) }"
TryWrap(r, msg, K(_)) == IF r.err # NoErr THEN Res(r.M, <<msg>> \o r.err, <<>>) ELSE K(r)
\* A panic (a call that set M.panic) ends the function.
NoPanic(M, K(_)) == IF M.panic THEN Res(M, <<"panic">>, <<>>) ELSE K(M)

\* The next base call is one the base Fs fails.
Faulty(M) == (M.n + 1) \in M.F
Called(M) == [M EXCEPT !.n = @ + 1]
\* M.log is the trace of the function that runs: the base calls that move or
\* purge a directory or put an object, and the directory map after each
\* change DirMove makes to it.
Logged(M, e) == [M EXCEPT !.log = Append(@, e)]
IOError == <<"EIO">>

\* ----------------------------------------------------------------- base Fs

\* A directory of the base Fs exists when it was made or holds something.
baseDirExists(M, key) ==
  \/ key = <<>>
  \/ key \in M.dirs
  \/ \E k \in (DOMAIN M.objs) \cup M.dirs : HasPrefix(k, key \o <<SL>>)

Under(k, key) == key = <<>> \/ k = key \/ HasPrefix(k, key \o <<SL>>)

\* base.NewObject(ctx, key)
baseNewObject(M, key) ==
  IF Faulty(M) THEN Res(Called(M), IOError, <<>>)
  ELSE IF key \in DOMAIN M.objs THEN Res(Called(M), NoErr, key)
  ELSE Res(Called(M), <<"ErrorObjectNotFound">>, <<>>)

\* obj.Open(ctx) and the reads of the stream up to io.EOF.
baseOpen(M, key) ==
  IF Faulty(M) \/ key \notin DOMAIN M.objs THEN Res(Called(M), IOError, <<>>)
  ELSE Res(Called(M), NoErr, M.objs[key])

\* base.Put(ctx, in, info): a failed Put stores nothing.
basePut(M, key, content) ==
  With(Logged(Called(M), [ev |-> "put", key |-> key, ok |-> ~Faulty(M)]), LAMBDA M1 :
  IF Faulty(M) THEN Res(M1, IOError, <<>>)
  ELSE Res([M1 EXCEPT !.objs = MapPut(@, key, content)], NoErr, key))

\* base.Mkdir(ctx, key)
baseMkdir(M, key) ==
  IF Faulty(M) THEN Res(Called(M), IOError, <<>>)
  ELSE Res([Called(M) EXCEPT !.dirs = @ \cup {key}], NoErr, <<>>)

\* operations.Purge(ctx, base, key) and base.Features().Purge: the directory
\* and all it holds are removed.
\* The base call operations.Purge(f.base, key), or f.base.Features().Purge(key), is issued.
Purging(M, key) == Logged(Called(M), [ev |-> "purge", key |-> key])

basePurge(M, key) ==
  IF Faulty(M) THEN Res(Purging(M, key), IOError, <<>>)
  ELSE IF ~baseDirExists(M, key) THEN Res(Purging(M, key), <<"ErrorDirNotFound">>, <<>>)
  ELSE Res([Purging(M, key) EXCEPT
              !.objs = [k \in {a \in DOMAIN M.objs : ~Under(a, key)} |-> M.objs[k]],
              !.dirs = {d \in M.dirs : ~Under(d, key)}], NoErr, <<>>)

\* obj.Remove(ctx) of a base object.
baseRemove(M, key) ==
  IF Faulty(M) THEN Res(Called(M), IOError, <<>>)
  ELSE Res([Called(M) EXCEPT !.objs = MapDel(@, key)], NoErr, <<>>)

Rebase(k, src, dst) ==
  IF src = <<>> THEN pathJoin(<<dst, k>>) ELSE dst \o SubSeq(k, Len(src) + 1, Len(k))

\* base.Features().DirMove(ctx, srcFs.base, srcKey, dstKey)
\* The base call f.base.Features().DirMove(src, dst) is issued.
Moving(M, src, dst) == Logged(Called(M), [ev |-> "move", src |-> src, dst |-> dst])

baseDirMove(M, src, dst) ==
  IF Faulty(M) THEN Res(Moving(M, src, dst), IOError, <<>>)
  ELSE IF ~baseDirExists(M, src) THEN Res(Moving(M, src, dst), <<"ErrorDirNotFound">>, <<>>)
  ELSE IF baseDirExists(M, dst) THEN Res(Moving(M, src, dst), <<"ErrorDirExists">>, <<>>)
  ELSE LET moved == {k \in DOMAIN M.objs : Under(k, src)}
           kept == (DOMAIN M.objs) \ moved
           newKeys == {Rebase(k, src, dst) : k \in moved}
           from(nk) == CHOOSE k \in moved : Rebase(k, src, dst) = nk
       IN  Res([Moving(M, src, dst) EXCEPT
                  !.objs = [k \in kept \cup newKeys |->
                              IF k \in newKeys THEN M.objs[from(k)] ELSE M.objs[k]],
                  !.dirs = {d \in M.dirs : ~Under(d, src)}
                             \cup {Rebase(d, src, dst) : d \in {e \in M.dirs : Under(e, src)}}
                             \cup {dst}],
               NoErr, <<>>)

\* base.Features().Copy(ctx, srcObj, dstKey)
baseCopy(M, src, dst) ==
  IF Faulty(M) \/ src \notin DOMAIN M.objs THEN Res(Called(M), IOError, <<>>)
  ELSE Res([Called(M) EXCEPT !.objs = MapPut(@, dst, M.objs[src])], NoErr, dst)

\* The names base.List(ctx, "") reports as directories: the top-level ones.
baseTopDirs(M) ==
  {SubSeq(k, 1, IndexOf(k, SL) - 1) : k \in {a \in (DOMAIN M.objs) \cup M.dirs : Contains(a, SL)}}
    \cup {d \in M.dirs : ~Contains(d, SL) /\ d # <<>>}
baseList(M) ==
  IF Faulty(M) THEN Res(Called(M), IOError, {})
  ELSE Res(Called(M), NoErr, baseTopDirs(M))

\* ------------------------------------------------------- dirMap, dirEntry

MapName == <<"m", "a", "p">>
DataName == <<"d", "a", "t", "a">>
NameName == <<"n", "a", "m", "e">>

RECURSIVE Flatten(_)
Flatten(ss) == IF ss = <<>> THEN <<>> ELSE Head(ss) \o Flatten(Tail(ss))

\* entry.Children, the slice: the first len elements of its backing array.
Children(M, e) == SubSeq(M.arrs[M.heap[e].arr], 1, M.heap[e].len)

\* The capacity append gives a slice of pointers that is full.
growCap(c) == IF c = 0 THEN 1 ELSE 2 * c

\* An append that loses the entry: the Children stay as they were.
appendChildLost(M, parent, id) == M

\* parent.Children = append(parent.Children, entry): in place when the backing
\* array has room, into a new array otherwise.
appendChild(M, parent, id) ==
  LET pe == M.heap[parent]
      a == M.arrs[pe.arr]
  IN  IF pe.len < Len(a)
      THEN [M EXCEPT !.arrs[pe.arr][pe.len + 1] = id, !.heap[parent].len = pe.len + 1]
      ELSE LET na == SubSeq(a, 1, pe.len) \o <<id>>
                       \o [k \in 1..(growCap(Len(a)) - pe.len - 1) |-> 0]
           IN  [M EXCEPT !.arrs = Append(@, na),
                         !.heap[parent].arr = Len(M.arrs) + 1,
                         !.heap[parent].len = pe.len + 1,
                         !.ovf = @ \/ (pe.len + 1 > MaxChildren)]

\* The entry newDirEntry makes and registers, linked to parent (0: none).
linkEntry(M, overlayPath, parent) ==
  LET hashed == hasher(overlayPath)
      id == Len(M.heap) + 1
      entry == [Path |-> overlayPath, Hash |-> hashed, Parent |-> parent,
                arr |-> Len(M.arrs) + 1, len |-> 0, loaded |-> FALSE, files |-> EmptyMap]
      M2 == [M EXCEPT !.heap = Append(@, entry), !.arrs = Append(@, <<>>),
                      !.Hash = MapPut(@, hashed, id), !.Path = MapPut(@, overlayPath, id)]
  IN  IF parent # 0 THEN appendChild(M2, parent, id) ELSE M2

parentPathOf(overlayPath) == TrimSuffix(pathSplit(overlayPath).dir, <<SL>>)

\* dirMap.newDirEntry of part_001: nothing to do for a path already there.
RECURSIVE newDirEntry(_, _)
newDirEntry(M, overlayPath) ==
  IF overlayPath \in DOMAIN M.Path THEN M
  ELSE IF overlayPath = <<>> THEN linkEntry(M, overlayPath, 0)
  ELSE LET parentPath == parentPathOf(overlayPath)
           M1 == IF parentPath \in DOMAIN M.Path THEN M ELSE newDirEntry(M, parentPath)
       IN  linkEntry(M1, overlayPath, M1.Path[parentPath])

\* dirMap.newDirEntry of entries.go: a second entry for a path already there.
RECURSIVE newDirEntryOld(_, _)
newDirEntryOld(M, overlayPath) ==
  IF overlayPath = <<>> THEN linkEntry(M, overlayPath, 0)
  ELSE LET parentPath == parentPathOf(overlayPath)
           M1 == IF parentPath \in DOMAIN M.Path THEN M ELSE newDirEntryOld(M, parentPath)
       IN  linkEntry(M1, overlayPath, M1.Path[parentPath])

mkEntry(M, overlayPath) ==
  IF build = "new" THEN newDirEntry(M, overlayPath) ELSE newDirEntryOld(M, overlayPath)

\* append(s[:idx], s[idx+1:]...) on the backing array a of a slice of length
\* n (idx counted from 1): the tail moves down and the last slot keeps its value.
cutAt(a, n, idx) ==
  [k \in 1..Len(a) |-> IF k < idx THEN a[k] ELSE IF k < n THEN a[k + 1] ELSE a[k]]

\* unlinkAt that leaves the entry in the hash index.
unlinkAtPathOnly(M, entry, idx) ==
  LET e == M.heap[entry]
      pe == M.heap[e.Parent]
  IN  [M EXCEPT !.arrs[pe.arr] = cutAt(@, pe.len, idx),
                !.heap[e.Parent].len = pe.len - 1,
                !.Path = MapDel(@, e.Path)]

unlinkAt(M, entry, idx) ==
  LET e == M.heap[entry]
      pe == M.heap[e.Parent]
  IN  [M EXCEPT !.arrs[pe.arr] = cutAt(@, pe.len, idx),
                !.heap[e.Parent].len = pe.len - 1,
                !.Path = MapDel(@, e.Path),
                !.Hash = MapDel(@, e.Hash)]

\* Position of entry in its parent's Children, 0 when it is not there.
childIndex(M, entry) ==
  LET e == M.heap[entry]
      cs == Children(M, e.Parent)
  IN  IF \E k \in 1..Len(cs) : cs[k] = entry
      THEN CHOOSE k \in 1..Len(cs) : cs[k] = entry /\ \A j \in 1..(k - 1) : cs[j] # entry
      ELSE 0

\* dirMap.removeEntry of part_001.
removeEntry(M, path) ==
  IF path \notin DOMAIN M.Path THEN M
  ELSE LET entry == M.Path[path]
       IN  IF M.heap[entry].Parent = 0 THEN [M EXCEPT !.panic = TRUE]
           ELSE IF childIndex(M, entry) = 0 THEN [M EXCEPT !.panic = TRUE]
           ELSE unlinkAt(M, entry, childIndex(M, entry))

\* dirMap.removeEntry of entries.go: idx stays 0 when the entry is not among
\* the children of its parent, and slicing an empty slice at 1 panics.
removeEntryOld(M, path) ==
  IF path \notin DOMAIN M.Path THEN M
  ELSE LET entry == M.Path[path]
           e == M.heap[entry]
       IN  IF e.Parent = 0 THEN [M EXCEPT !.panic = TRUE]
           ELSE IF childIndex(M, entry) # 0 THEN unlinkAt(M, entry, childIndex(M, entry))
           ELSE IF M.heap[e.Parent].len = 0 THEN [M EXCEPT !.panic = TRUE]
           ELSE unlinkAt(M, entry, 1)

rmEntry(M, path) ==
  IF build = "new" THEN removeEntry(M, path) ELSE removeEntryOld(M, path)

\* The bytes dirMap.write streams: a line "<hash> <path>\n" per path, the
\* paths sorted.
rootIndexBytes(M) ==
  LET ps == SortStrings(DOMAIN M.Path)
  IN  Flatten([k \in 1..Len(ps) |-> M.heap[M.Path[ps[k]]].Hash \o <<SP>> \o ps[k] \o <<NL>>])

\* dirMap.write
dirMapWrite(M) == basePut(M, MapName, rootIndexBytes(M))

\* The loop of loadDirectoryMap over the lines read.
RECURSIVE loadLines(_, _)
loadLines(M, lines) ==
  IF lines = <<>> THEN Res(M, NoErr, <<>>)
  ELSE LET entry == Head(lines)
       IN  IF entry = <<>> THEN loadLines(M, Tail(lines))
           ELSE IF Len(splitN2(entry)) < 2 THEN Res(M, <<"malformed map file">>, <<>>)
           ELSE loadLines(mkEntry(M, splitN2(entry)[2]), Tail(lines))

\* newDirMap: an empty map with the root entry.
newDirMap(M) ==
  mkEntry([M EXCEPT !.heap = <<>>, !.arrs = <<>>, !.Path = EmptyMap, !.Hash = EmptyMap], <<>>)

\* loadDirectoryMap(fs, in): in is nil, or the content of the stream.
loadDirectoryMap(M, isNil, in) ==
  IF isNil THEN Res(newDirMap(M), NoErr, <<>>)
  ELSE loadLines(newDirMap(M), readLines(in))

\* The loop over the lines of a directory's map file: files[split[1]] = split[0].
RECURSIVE parseFiles(_, _)
parseFiles(lines, files) ==
  IF lines = <<>> THEN [err |-> NoErr, files |-> files]
  ELSE LET entry == Head(lines)
       IN  IF entry = <<>> THEN parseFiles(Tail(lines), files)
           ELSE IF Len(splitN2(entry)) < 2
                THEN [err |-> <<"malformed map file">>, files |-> files]
           ELSE parseFiles(Tail(lines), MapPut(files, splitN2(entry)[2], splitN2(entry)[1]))

setFiles(M, e, files) == [M EXCEPT !.heap[e].loaded = TRUE, !.heap[e].files = files]

\* dirEntry.fillFiles of part_001: on an error d.files is nil again.
fillFiles(M, e) ==
  IF M.heap[e].loaded THEN Res(M, NoErr, <<>>)
  ELSE With(baseNewObject(M, pathJoin(<<M.heap[e].Hash, MapName>>)), LAMBDA r1 :
       IF ErrIs(r1.err, "ErrorObjectNotFound") THEN Res(setFiles(r1.M, e, EmptyMap), NoErr, <<>>)
       ELSE IF r1.err # NoErr THEN Res(r1.M, r1.err, <<>>)
       ELSE TryWrap(baseOpen(r1.M, r1.val), "error opening map file", LAMBDA r2 :
            With(parseFiles(readLines(r2.val), EmptyMap), LAMBDA p :
            IF p.err # NoErr THEN Res(r2.M, p.err, <<>>)
            ELSE Res(setFiles(r2.M, e, p.files), NoErr, <<>>))))

\* dirEntry.Files of entries.go: d.files is set before the load and stays set
\* when the load fails.
FilesOld(M, e) ==
  IF M.heap[e].loaded THEN Res(M, NoErr, M.heap[e].files)
  ELSE With(baseNewObject(setFiles(M, e, EmptyMap), pathJoin(<<M.heap[e].Hash, MapName>>)),
            LAMBDA r1 :
       IF ErrIs(r1.err, "ErrorObjectNotFound") THEN Res(r1.M, NoErr, EmptyMap)
       ELSE IF r1.err # NoErr THEN Res(r1.M, r1.err, EmptyMap)
       ELSE TryWrap(baseOpen(r1.M, r1.val), "error opening map file", LAMBDA r2 :
            With(parseFiles(readLines(r2.val), EmptyMap), LAMBDA p :
            Res(setFiles(r2.M, e, p.files), p.err, p.files))))

\* dirEntry.Files of part_001.
FilesNew(M, e) == Try(fillFiles(M, e), LAMBDA r : Res(r.M, NoErr, r.M.heap[e].files))

Files(M, e) == IF build = "new" THEN FilesNew(M, e) ELSE FilesOld(M, e)

\* The bytes dirEntry.write streams: a line "<hash> <name>\n" per file name,
\* the names sorted.
fileIndexBytes(files) ==
  LET ns == SortStrings(DOMAIN files)
  IN  Flatten([k \in 1..Len(ns) |-> files[ns[k]] \o <<SP>> \o ns[k] \o <<NL>>])

\* dirEntry.write of part_001.
entryWriteNew(M, e) ==
  IF ~M.heap[e].loaded THEN Res(M, <<"map file is not loaded">>, <<>>)
  ELSE basePut(M, pathJoin(<<M.heap[e].Hash, MapName>>), fileIndexBytes(M.heap[e].files))

\* dirEntry.write of entries.go.
entryWriteOld(M, e) ==
  TryWrap(FilesOld(M, e), "error fetching original list of files", LAMBDA r :
  basePut(r.M, pathJoin(<<M.heap[e].Hash, MapName>>), fileIndexBytes(r.val)))

entryWrite(M, e) == IF build = "new" THEN entryWriteNew(M, e) ELSE entryWriteOld(M, e)

\* ---------------------------------------------------------------------- Fs

Panicked(M) == Res(M, <<"panic">>, <<>>)

\* toHash without the test of the parent: a parent that is not indexed is
\* taken to be the root.
toHashAnywhere(M, remote) ==
  LET sp == pathSplit(remote)
      parent == pathJoin(<<fsRoot, TrimSuffix(sp.dir, <<SL>>)>>)
  IN  [ok |-> TRUE,
       entry |-> IF parent \in DOMAIN M.Path THEN M.Path[parent] ELSE M.Path[<<>>],
       fileHash |-> hasher(sp.file)]

\* Fs.toHash
toHash(M, remote) ==
  LET sp == pathSplit(remote)
      parent == pathJoin(<<fsRoot, TrimSuffix(sp.dir, <<SL>>)>>)
  IN  [ok |-> parent \in DOMAIN M.Path,
       entry |-> IF parent \in DOMAIN M.Path THEN M.Path[parent] ELSE 0,
       fileHash |-> hasher(sp.file)]

\* Fs.NewObject
NewObject(M, remote) ==
  IF remote \in DOMAIN M.Path THEN Res(M, <<"ErrorIsDir">>, <<>>)
  ELSE With(toHash(M, remote), LAMBDA th :
       IF ~th.ok THEN Res(M, <<"ErrorObjectNotFound">>, <<>>)
       ELSE Try(Files(M, th.entry), LAMBDA rf :
            IF pathSplit(remote).file \notin DOMAIN rf.val
            THEN Res(rf.M, <<"ErrorObjectNotFound">>, <<>>)
            ELSE With(pathJoin(<<M.heap[th.entry].Hash, th.fileHash>>), LAMBDA basePath :
                 TryWrap(baseNewObject(rf.M, pathJoin(<<basePath, DataName>>)),
                         "error fetching base object", LAMBDA ro :
                 Res(ro.M, NoErr, [obj |-> ro.val, path |-> remote,
                                   basePath |-> basePath, dirEntry |-> th.entry])))))

DirItem(path, known) == [kind |-> "dir", remote |-> path, known |-> known]
FileItem(path) == [kind |-> "file", remote |-> path, known |-> TRUE]

\* The loop of list over the file names: a file whose object cannot be fetched
\* is dropped (skip) or ends the listing with the error (~skip).
RECURSIVE listFiles(_, _, _, _, _)
listFiles(M, dirPath, names, acc, skip) ==
  IF names = <<>> THEN Res(M, NoErr, acc)
  ELSE With(TrimPrefix(TrimPrefix(pathJoin(<<dirPath, Head(names)>>), fsRoot), <<SL>>),
            LAMBDA filePath :
       With(NewObject(M, filePath), LAMBDA r :
       IF r.err = NoErr
       THEN listFiles(r.M, dirPath, Tail(names), acc \cup {FileItem(filePath)}, skip)
       ELSE IF skip THEN listFiles(r.M, dirPath, Tail(names), acc, skip)
       ELSE Res(r.M, Wrap("error fetching object", r.err), {})))

\* subdirNames[h]: the child put last under the hash h.
subdirNames(M, cs, h) ==
  cs[CHOOSE k \in 1..Len(cs) :
       M.heap[cs[k]].Hash = h /\ \A j \in (k + 1)..Len(cs) : M.heap[cs[j]].Hash # h]

\* The body shared by Fs.list and the older Fs.List.
listWith(M, entry, skip) ==
  With(Children(M, entry), LAMBDA cs :
  With({M.heap[cs[k]].Hash : k \in 1..Len(cs)}, LAMBDA hashes :
  Try(Files(M, entry), LAMBDA rf :
  Try(IF hashes # {} THEN baseList(rf.M) ELSE Res(rf.M, NoErr, {}), LAMBDA rl :
  listFiles(rl.M, M.heap[entry].Path, SortStrings(DOMAIN rf.val),
            {DirItem(M.heap[subdirNames(M, cs, h)].Path, h \in rl.val) : h \in hashes},
            skip)))))

\* Fs.list (dir.go:65)
list(M, entry) == listWith(M, entry, TRUE)

\* Fs.List (dir.go:21), and the older Fs.List (dir.go:398) which ends the
\* listing at the first file that cannot be fetched.
List(M, dir) ==
  With(pathJoin(<<fsRoot, dir>>), LAMBDA d :
  IF d \notin DOMAIN M.Path THEN Res(M, <<"ErrorDirNotFound">>, {})
  ELSE IF build = "new" THEN list(M, M.Path[d])
  ELSE listWith(M, M.Path[d], FALSE))

\* Fs.ListR: the recursion; val is the sequence of tranches given to callback,
\* which returns an error at its cbFail-th call (0: never).
RECURSIVE listRRec(_, _, _, _)
RECURSIVE listRChildren(_, _, _, _)
listRRec(M, e, acc, cbFail) ==
  With(list(M, e), LAMBDA r :
  IF r.err # NoErr THEN Res(r.M, r.err, acc)
  ELSE With(Append(acc, [dir |-> M.heap[e].Path, entries |-> r.val]), LAMBDA acc1 :
       IF Len(acc1) = cbFail THEN Res(r.M, <<"callback">>, acc1)
       ELSE listRChildren(r.M, Children(r.M, e), acc1, cbFail)))
listRChildren(M, cs, acc, cbFail) ==
  IF cs = <<>> THEN Res(M, NoErr, acc)
  ELSE With(listRRec(M, Head(cs), acc, cbFail), LAMBDA r :
       IF r.err # NoErr THEN r ELSE listRChildren(r.M, Tail(cs), r.val, cbFail))

ListR(M, dir, cbFail) ==
  With(pathJoin(<<fsRoot, dir>>), LAMBDA d :
  IF d \notin DOMAIN M.Path THEN Res(M, <<"ErrorDirNotFound">>, <<>>)
  ELSE listRRec(M, M.Path[d], <<>>, cbFail))

\* A Mkdir that does not look whether the directory is there already.
MkdirAlways(M, dir) ==
  With(pathJoin(<<fsRoot, dir>>), LAMBDA d :
  With(mkEntry(M, d), LAMBDA M1 :
  Try(baseMkdir(M1, M1.heap[M1.Path[d]].Hash), LAMBDA rm :
  dirMapWrite(rm.M))))

\* Fs.Mkdir; the older Fs.Mkdir makes the base directory whatever the base
\* Fs says about empty directories.
Mkdir(M, dir) ==
  With(pathJoin(<<fsRoot, dir>>), LAMBDA d :
  IF d \in DOMAIN M.Path THEN Res(M, NoErr, <<>>)
  ELSE IF Contains(d, NL) THEN Res(M, <<"directory name may not contain newline">>, <<>>)
  ELSE With(mkEntry(M, d), LAMBDA M1 :
       Try(IF build # "new" \/ feat.CanHaveEmptyDirectories
           THEN baseMkdir(M1, M1.heap[M1.Path[d]].Hash) ELSE Res(M1, NoErr, <<>>), LAMBDA rm :
       dirMapWrite(rm.M))))

\* Fs.Rmdir
Rmdir(M, dir) ==
  With(pathJoin(<<fsRoot, dir>>), LAMBDA d :
  IF d \notin DOMAIN M.Path THEN Res(M, <<"ErrorDirNotFound">>, <<>>)
  ELSE With(M.Path[d], LAMBDA entry :
       TryWrap(Files(M, entry), "directory in a bad state, refusing to modify", LAMBDA rf :
       IF DOMAIN rf.val # {} \/ M.heap[entry].len > 0
       THEN Res(rf.M, <<"ErrorDirectoryNotEmpty">>, <<>>)
       ELSE NoPanic(rmEntry(rf.M, d), LAMBDA M1 :
            Try(dirMapWrite(M1), LAMBDA rw :
            With(basePurge(rw.M, M.heap[entry].Hash), LAMBDA rp :
            IF ErrIs(rp.err, "ErrorDirNotFound") THEN Res(rp.M, NoErr, <<>>) ELSE rp))))))

\* Fs.Purge: the recursion purge(entry)
RECURSIVE purgeRec(_, _)
RECURSIVE purgeChildren(_, _)
purgeRec(M, entry) ==
  Try(purgeChildren(M, Children(M, entry)), LAMBDA rc :
  Try(basePurge(rc.M, M.heap[entry].Hash), LAMBDA rd :
  Res([rd.M EXCEPT !.Path = MapDel(@, M.heap[entry].Path),
                   !.Hash = MapDel(@, M.heap[entry].Hash)], NoErr, <<>>)))
purgeChildren(M, cs) ==
  IF cs = <<>> THEN Res(M, NoErr, <<>>)
  ELSE Try(purgeRec(M, Head(cs)), LAMBDA r : purgeChildren(r.M, Tail(cs)))

\* Fs.Purge
Purge(M, dir) ==
  IF ~feat.Purge THEN Res(M, <<"ErrorCantPurge">>, <<>>)
  ELSE With(pathJoin(<<fsRoot, dir>>), LAMBDA d :
       IF d \notin DOMAIN M.Path THEN Res(M, <<"ErrorDirNotFound">>, <<>>)
       ELSE With(purgeRec(M, M.Path[d]), LAMBDA rp :
            Try(dirMapWrite(rp.M), LAMBDA rw : Res(rw.M, rp.err, <<>>))))

\* Go leaves the iteration order of a map open: the loops over d.files run in
\* ascending or in descending order of the names.
mapOrder(S, rev) ==
  With(SortStrings(S), LAMBDA a :
  IF rev THEN [k \in 1..Len(a) |-> a[Len(a) + 1 - k]] ELSE a)

\* Fs.rewriteNameFiles: the loop over the files of the entry.
RECURSIVE rewriteLoop(_, _, _, _)
rewriteLoop(M, entry, dstLocation, names) ==
  IF names = <<>> THEN Res(M, NoErr, <<>>)
  ELSE With(pathJoin(<<M.heap[entry].Hash, M.heap[entry].files[Head(names)], NameName>>),
            LAMBDA key :
       TryWrap(baseNewObject(M, key), "cannot find name file to delete", LAMBDA ro :
       TryWrap(baseRemove(ro.M, key), "cannot delete name file", LAMBDA rr :
       Try(basePut(rr.M, key, pathJoin(<<dstLocation, Head(names)>>) \o <<NL>>), LAMBDA rp :
       rewriteLoop(rp.M, entry, dstLocation, Tail(names))))))

\* Fs.rewriteNameFiles
rewriteNameFiles(M, dstLocation, rev) ==
  TryWrap(Files(M, M.Path[dstLocation]), "cannot rewrite name files with invalid map file",
          LAMBDA rf :
  rewriteLoop(rf.M, M.Path[dstLocation], dstLocation, mapOrder(DOMAIN rf.val, rev)))

\* Fs.DirMove: the recursion recurse(entry).  "for _, child := range
\* entry.Children" reads the slice once (its backing array arr and its length
\* n) and then the element i of that array at each turn, whatever removeEntry
\* did to the array in between.
\* The directory map as DirMove leaves it at one step: each indexed path
\* with its entry and the Parent of that entry.
Snap(M) ==
  Logged(M, [ev |-> "index", Path |-> M.Path,
             Parent |-> [p \in DOMAIN M.Path |-> M.heap[M.Path[p]].Parent]])

RECURSIVE moveRec(_, _, _, _, _)
RECURSIVE moveChildren(_, _, _, _, _, _, _)
moveRec(M, entry, srcRemote, dstRemote, rev) ==
  With(M.heap[entry], LAMBDA e :
  Try(moveChildren(M, e.arr, e.len, 1, srcRemote, dstRemote, rev), LAMBDA rc :
  With(pathJoin(<<dstRemote, TrimPrefix(TrimPrefix(e.Path, srcRemote), <<SL>>)>>),
       LAMBDA dstLocation :
  Try(baseDirMove(rc.M, hasher(e.Path), hasher(dstLocation)), LAMBDA rm :
  NoPanic(removeEntry(Snap(newDirEntry(rm.M, dstLocation)), e.Path), LAMBDA M1 :
  rewriteNameFiles(Snap(M1), dstLocation, rev))))))
moveChildren(M, arr, n, i, srcRemote, dstRemote, rev) ==
  IF i > n THEN Res(M, NoErr, <<>>)
  ELSE Try(moveRec(M, M.arrs[arr][i], srcRemote, dstRemote, rev), LAMBDA r :
       moveChildren(r.M, arr, n, i + 1, srcRemote, dstRemote, rev))

\* A DirMove that does not look srcRemote and dstRemote up before it moves.
DirMoveUntested(M, srcRemote, dstRemote, rev) ==
  With(pathJoin(<<fsRoot, srcRemote>>), LAMBDA s :
  With(pathJoin(<<fsRoot, dstRemote>>), LAMBDA d :
  With(IF s \in DOMAIN M.Path THEN moveRec(M, M.Path[s], s, d, rev)
       ELSE Res(M, <<"ErrorDirNotFound">>, <<>>), LAMBDA rr :
  IF rr.M.panic THEN rr
  ELSE Try(dirMapWrite(rr.M), LAMBDA w1 :
       Try(dirMapWrite(w1.M), LAMBDA w2 :
       Res(w2.M, rr.err, <<>>))))))

\* Fs.DirMove, with src the Fs itself.
DirMove(M, srcRemote, dstRemote, rev) ==
  IF ~feat.DirMove THEN Res(M, <<"ErrorCantDirMove">>, <<>>)
  ELSE With(pathJoin(<<fsRoot, srcRemote>>), LAMBDA s :
       With(pathJoin(<<fsRoot, dstRemote>>), LAMBDA d :
       IF s \notin DOMAIN M.Path THEN Res(M, <<"ErrorDirNotFound">>, <<>>)
       ELSE IF d \in DOMAIN M.Path THEN Res(M, <<"ErrorDirExists">>, <<>>)
       ELSE With(moveRec(M, M.Path[s], s, d, rev), LAMBDA rr :
            IF rr.M.panic THEN rr
            ELSE Try(dirMapWrite(rr.M), LAMBDA w1 :
                 Try(dirMapWrite(w1.M), LAMBDA w2 :
                 Res(w2.M, rr.err, <<>>))))))

\* strings.Split(s, "/") and strings.Join(elems, "/").
RECURSIVE splitSlash(_)
splitSlash(s) ==
  IF IndexOf(s, SL) = 0 THEN <<s>>
  ELSE <<SubSeq(s, 1, IndexOf(s, SL) - 1)>> \o splitSlash(SubSeq(s, IndexOf(s, SL) + 1, Len(s)))
RECURSIVE joinSlash(_)
joinSlash(es) ==
  IF es = <<>> THEN <<>>
  ELSE IF Len(es) = 1 THEN es[1]
  ELSE es[1] \o <<SL>> \o joinSlash(Tail(es))

\* A loop over files that calls notify for every file.
notifyEvery(names, files, fileHash, typ) ==
  [k \in 1..Len(names) |-> [path |-> names[k], typ |-> typ]]

\* wrappedNotify: the loop over files, which calls notify with the loop
\* variable path, a key of files, for the first file of the hash fileHash.
RECURSIVE notifyLoop(_, _, _, _)
notifyLoop(names, files, fileHash, typ) ==
  IF names = <<>> THEN <<>>
  ELSE IF files[Head(names)] = fileHash THEN <<[path |-> Head(names), typ |-> typ]>>
  ELSE notifyLoop(Tail(names), files, fileHash, typ)

\* wrappedNotify of Fs.ChangeNotify, called by the base Fs with the key path
\* of an object and the type typ of the event; val is the sequence of the
\* calls of notify.
wrappedNotify(M, path, typ, rev) ==
  With(splitSlash(path), LAMBDA split :
  IF split[Len(split)] # DataName THEN Res(M, NoErr, <<>>)
  ELSE IF Len(split) < 3 THEN Res(M, NoErr, <<>>)
  ELSE With(joinSlash(SubSeq(split, 1, Len(split) - 2)), LAMBDA dirHash :
       IF dirHash \notin DOMAIN M.Hash THEN Res(M, NoErr, <<>>)
       ELSE With(Files(M, M.Hash[dirHash]), LAMBDA rf :
            IF rf.err # NoErr THEN Res(rf.M, NoErr, <<>>)
            ELSE Res(rf.M, NoErr, notifyLoop(mapOrder(DOMAIN rf.val, rev), rf.val,
                                             split[Len(split) - 1], typ)))))

\* Fs.prepareDest
prepareDest(M, overlay, dirHash, fileHash) ==
  Try(baseMkdir(M, dirHash), LAMBDA r1 :
  TryWrap(baseMkdir(r1.M, pathJoin(<<dirHash, fileHash>>)),
          "error creating directory for file", LAMBDA r2 :
  TryWrap(basePut(r2.M, pathJoin(<<dirHash, fileHash, NameName>>), overlay \o <<NL>>),
          "error creating name file", LAMBDA r3 :
  Res(r3.M, NoErr, <<>>))))

\* Whether the base Fs has the put function that Put, PutStream or
\* PutUnchecked hands to Fs.put.
hasPutFn(do) ==
  CASE do = "Put" -> TRUE
    [] do = "PutStream" -> feat.PutStream
    [] do = "PutUnchecked" -> feat.PutUnchecked

\* Fs.put: remote is src.Remote() and data the content read from in.  Calling
\* a put function the base Fs does not have is a call of a nil function.
put(M, do, remote, data) ==
  IF Contains(remote, NL) THEN Res(M, <<"file name may not contain newline">>, <<>>)
  ELSE With(toHash(M, remote), LAMBDA th :
       IF ~th.ok THEN Res(M, <<"ErrorDirNotFound">>, <<>>)
       ELSE With(M.heap[th.entry].Hash, LAMBDA eh :
            Try(prepareDest(M, remote, eh, th.fileHash), LAMBDA rp :
            NoPanic([rp.M EXCEPT !.panic = ~hasPutFn(do)], LAMBDA M1 :
            TryWrap(basePut(M1, pathJoin(<<eh, th.fileHash, DataName>>), data),
                    "error creating data file", LAMBDA rd :
            Try(Files(rd.M, th.entry), LAMBDA rf :
            With(entryWrite([rf.M EXCEPT !.heap[th.entry].files =
                                           MapPut(@, pathSplit(remote).file, th.fileHash)],
                            th.entry), LAMBDA rw :
            Res(rw.M, rw.err, remote))))))))

\* Fs.Copy: src is the object NewObject gave for the source.
Copy(M, src, remote) ==
  IF ~feat.Copy THEN Res(M, <<"ErrorCantCopy">>, <<>>)
  ELSE IF Contains(remote, NL) THEN Res(M, <<"file name may not contain newline">>, <<>>)
  ELSE With(toHash(M, remote), LAMBDA th :
       IF ~th.ok THEN Res(M, <<"ErrorDirNotFound">>, <<>>)
       ELSE With(M.heap[th.entry].Hash, LAMBDA eh :
            Try(prepareDest(M, src.path, eh, th.fileHash), LAMBDA rp :
            Try(entryWrite(rp.M, th.entry), LAMBDA rw :
            baseCopy(rw.M, src.obj, pathJoin(<<eh, th.fileHash, DataName>>))))))

\* object.Remove
Remove(M, o) ==
  Try(basePurge(M, o.basePath), LAMBDA rp :
  TryWrap(Files(rp.M, o.dirEntry), "refusing to modify map file: cannot load map file",
          LAMBDA rf :
  entryWrite([rf.M EXCEPT !.heap[o.dirEntry].files = MapDel(@, pathBase(o.path))],
             o.dirEntry)))

\* NewFs, from "Load the directory map" on: the root index is read only when
\* base.NewObject returned no error at all.
NewFs(M) ==
  With(baseNewObject(M, MapName), LAMBDA ro :
  IF ro.err # NoErr THEN loadDirectoryMap(ro.M, TRUE, <<>>)
  ELSE With(baseOpen(ro.M, ro.val), LAMBDA rr :
       IF ErrIs(rr.err, "ErrorObjectNotFound") THEN loadDirectoryMap(rr.M, TRUE, <<>>)
       ELSE IF rr.err # NoErr THEN Res(rr.M, rr.err, <<>>)
       ELSE loadDirectoryMap(rr.M, FALSE, rr.val)))

\* ------------------------------------------------------------- operations

\* Base calls of one operation that a fault may hit.
MaxCalls == 12

\* The entries an operation can still reach: those of the two indices, their
\* parents and their children.
RECURSIVE reachable(_, _)
reachable(M, S) ==
  LET T == S \cup {M.heap[e].Parent : e \in S} \cup
           UNION {{Children(M, e)[k] : k \in 1..M.heap[e].len} : e \in S}
      T1 == T \ {0}
  IN  IF T1 = S THEN S ELSE reachable(M, T1)

\* The memory with the unreachable entries dropped and the others renumbered
\* in the order of their allocation; an entry's backing array gets the
\* entry's number and keeps its capacity, its slots past the length are 0.
Normalize(M) ==
  LET R == reachable(M, {M.Path[p] : p \in DOMAIN M.Path} \cup {M.Hash[h] : h \in DOMAIN M.Hash})
      rank(e) == IF e = 0 THEN 0 ELSE Cardinality({j \in R : j <= e})
      nth(k) == CHOOSE e \in R : rank(e) = k
      n == Cardinality(R)
  IN  [heap |-> [k \in 1..n |-> [M.heap[nth(k)] EXCEPT !.Parent = rank(@), !.arr = k]],
       arrs |-> [k \in 1..n |->
                   LET e == M.heap[nth(k)]
                   IN  [j \in 1..Len(M.arrs[e.arr]) |->
                          IF j <= e.len THEN rank(M.arrs[e.arr][j]) ELSE 0]],
       Path |-> [p \in DOMAIN M.Path |-> rank(M.Path[p])],
       Hash |-> [h \in DOMAIN M.Hash |-> rank(M.Hash[h])]]

\* No Fs: the process is down (a panic, or NewFs returned an error).
NoMemory == [heap |-> <<>>, arrs |-> <<>>, Path |-> EmptyMap, Hash |-> EmptyMap]

\* The sets of at most k calls to fail.
RECURSIVE faultSets(_)
faultSets(k) ==
  IF k = 0 THEN {{}}
  ELSE LET P == faultSets(k - 1) IN P \cup {S \cup {c} : S \in P, c \in 1..MaxCalls}

\* The operations that hand their results to a callback of the caller.
CallbackOps == {"Notify", "ListR"}

\* The record of an operation: its name, its arguments, the error it returned,
\* the number of base calls it made, whether it is again the operation before
\* it, which returned success, and the calls it made of its callback.
Last(op, a, b, r) ==
  [op |-> op, a |-> a, b |-> b, err |-> r.err, n |-> r.M.n,
   again |-> (last.op = op /\ last.a = a /\ last.b = b /\ last.err = NoErr),
   out |-> IF op \in CallbackOps THEN r.val ELSE <<>>]

\* An operation ends with result r, F being the calls that failed: the memory
\* and the base Fs are as the operation left them, and fsUp tells whether the
\* process still has its Fs.
Ends(op, a, b, r, F, fsUp) ==
  /\ ~r.M.ovf
  /\ \A c \in F : c <= r.M.n
  /\ With(IF fsUp THEN Normalize(r.M) ELSE NoMemory, LAMBDA N :
       /\ heap' = N.heap
       /\ arrs' = N.arrs
       /\ Path' = N.Path
       /\ Hash' = N.Hash)
  /\ objs' = r.M.objs
  /\ dirs' = r.M.dirs
  /\ up' = fsUp
  /\ faults' = faults - Cardinality(F)
  /\ ops' = ops - 1
  /\ last' = Last(op, a, b, r)
  /\ UNCHANGED <<hashType, feat, build, calls>>

\* A call of a method of the Fs: a panic ends the process.
Call(op, a, b, r, F) == Ends(op, a, b, r, F, ~r.M.panic)

CanStep == up /\ ops > 0
Faults == faultSets(faults)

DoMkdir(dir) ==
  /\ CanStep
  /\ \E F \in Faults : Call("Mkdir", dir, <<>>, Mkdir(Machine(F), dir), F)

DoRmdir(dir) ==
  /\ CanStep
  /\ \E F \in Faults : Call("Rmdir", dir, <<>>, Rmdir(Machine(F), dir), F)

DoPurge(dir) ==
  /\ CanStep
  /\ \E F \in Faults : Call("Purge", dir, <<>>, Purge(Machine(F), dir), F)

DoDirMove(srcRemote, dstRemote) ==
  /\ CanStep
  /\ build = "new"
  /\ \E F \in Faults, rev \in BOOLEAN :
       Call("DirMove", srcRemote, dstRemote, DirMove(Machine(F), srcRemote, dstRemote, rev), F)

DoList(dir) ==
  /\ CanStep
  /\ \E F \in Faults : Call("List", dir, <<>>, List(Machine(F), dir), F)

\* Put, PutStream or PutUnchecked (do) of data under remote.
DoPut(do, remote, data) ==
  /\ CanStep
  /\ \E F \in Faults : Call(do, remote, data, put(Machine(F), do, remote, data), F)

\* Copy of the object NewObject gives for src.
DoCopy(src, remote) ==
  /\ CanStep
  /\ \E F \in Faults :
       Call("Copy", src, remote,
            Try(NewObject(Machine(F), src), LAMBDA ro : Copy(ro.M, ro.val, remote)), F)

\* Remove of the object NewObject gives for remote.
DoRemove(remote) ==
  /\ CanStep
  /\ \E F \in Faults :
       Call("Remove", remote, <<>>,
            Try(NewObject(Machine(F), remote), LAMBDA ro : Remove(ro.M, ro.val)), F)

\* The base Fs, on which ChangeNotify registered wrappedNotify, reports an
\* event of type typ on the object key.
DoNotify(key, typ) ==
  /\ CanStep
  /\ feat.ChangeNotify
  /\ \E F \in Faults, rev \in BOOLEAN :
       Call("Notify", key, typ, wrappedNotify(Machine(F), key, typ, rev), F)

\* A call of Fs.ListR (dir.go:38) with a callback that returns an error at its
\* call number cbFail (never, when cbFail is 0); out is the tranches it was
\* called with.
DoListR(dir, cbFail) ==
  /\ CanStep
  /\ build = "new"
  /\ \E F \in Faults : Call("ListR", dir, <<cbFail>>, ListR(Machine(F), dir, cbFail), F)

\* The process starts (again): NewFs on the base Fs as it is.
DoNewFs ==
  /\ ops > 0
  /\ \E F \in Faults :
       With(NewFs(Machine(F)), LAMBDA r : Ends("NewFs", <<>>, <<>>, r, F, r.err = NoErr))

\* The base Fs is written from outside the Fs: the object key gets content.
Tamper(key, content) ==
  /\ ops > 0
  /\ objs' = MapPut(objs, key, content)
  /\ ops' = ops - 1
  /\ last' = [op |-> "Tamper", a |-> key, b |-> content, err |-> NoErr, n |-> 0,
              again |-> FALSE, out |-> <<>>]
  /\ UNCHANGED <<hashType, feat, build, heap, arrs, Path, Hash, dirs, up, faults, calls>>

\* ----------------------------------------------------------- specification

FullFeatures ==
  [CanHaveEmptyDirectories |-> TRUE, Purge |-> TRUE, DirMove |-> TRUE, Copy |-> TRUE,
   PutStream |-> TRUE, PutUnchecked |-> TRUE, ChangeNotify |-> TRUE]

\* The memory NewFs makes on a base Fs that holds nothing.
Fresh ==
  Normalize(newDirMap([heap |-> <<>>, arrs |-> <<>>, Path |-> EmptyMap, Hash |-> EmptyMap,
                       objs |-> EmptyMap, dirs |-> {}, n |-> 0, F |-> {},
                       panic |-> FALSE, ovf |-> FALSE, log |-> <<>>]))

\* The Fs NewFs made on an empty base Fs, with hash type among hts, base
\* features among fts, build among blds, nf faults the base Fs may still
\* produce and no operations to come.
InitWith(hts, fts, blds, nf, no) ==
  /\ hashType \in hts
  /\ feat \in fts
  /\ build \in blds
  /\ heap = Fresh.heap
  /\ arrs = Fresh.arrs
  /\ Path = Fresh.Path
  /\ Hash = Fresh.Hash
  /\ objs = EmptyMap
  /\ dirs = {}
  /\ up = TRUE
  /\ faults = nf
  /\ ops = no
  /\ calls = EmptyMap
  /\ last = [op |-> "NewFs", a |-> <<>>, b |-> <<>>, err |-> NoErr, n |-> 1,
             again |-> FALSE, out |-> <<>>]

pA == <<"a">>
pAB == <<"a", "/", "b">>
pAC == <<"a", "/", "c">>
pAD == <<"a", "/", "d">>
pE == <<"e">>
TreeDirs == {<<>>, pA, pAB, pAC, pAD, pE}

\* The moves tried: none has its destination beneath its source, for which
\* recurse finds under each directory it moves the directories it has just
\* made and descends without end.
Moves == {<<pA, pE>>, <<pE, pA>>, <<<<>>, pE>>}

TreeFiles == {<<"f">>, <<"a", "/", "f">>}
Data == {<<"x">>}

\* The directory operations, Put and Remove on a base Fs that does not fail.
Init == InitWith({"md5"}, {FullFeatures}, {"new"}, 0, MaxOps)

Next ==
  \/ \E d \in TreeDirs : DoMkdir(d)
  \/ \E d \in TreeDirs : DoRmdir(d)
  \/ \E d \in TreeDirs : DoPurge(d)
  \/ \E m \in Moves : DoDirMove(m[1], m[2])
  \/ \E f \in TreeFiles, x \in Data : DoPut("Put", f, x)
  \/ \E f \in TreeFiles : DoRemove(f)

Spec == Init /\ [][Next]_vars

\* The directory operations, of either build, on a base Fs of which MaxFaults
\* calls fail.
InitFaulty == InitWith({"md5"}, {FullFeatures}, {"new", "old"}, MaxFaults, MaxOps - 1)

NextFaulty ==
  \/ \E d \in TreeDirs : DoMkdir(d)
  \/ \E d \in TreeDirs : DoRmdir(d)
  \/ \E d \in TreeDirs : DoPurge(d)
  \/ \E m \in Moves : DoDirMove(m[1], m[2])

SpecFaulty == InitFaulty /\ [][NextFaulty]_vars

\* The file operations, with directory "a" made or not and the process
\* started again at any time, on a base Fs that does not fail.
pF == <<"f">>
pG == <<"g">>
pAF == <<"a", "/", "f">>
FileNames == {pF, pG, pA, pAF}
Copies == {<<pF, pG>>, <<pF, pAF>>, <<pAF, pF>>}

NextFiles ==
  \/ DoMkdir(pA)
  \/ \E f \in FileNames, x \in Data : DoPut("Put", f, x)
  \/ \E c \in Copies : DoCopy(c[1], c[2])
  \/ \E f \in FileNames : DoRemove(f)
  \/ \E d \in {<<>>, pA} : DoList(d)
  \/ DoNewFs

SpecFiles == Init /\ [][NextFiles]_vars

\* A line of an index that has no space.
BadLine == <<"x", NL>>

\* Files put and listed, the directory "a" made and removed and the process
\* started again, by either build, on a base Fs of which MaxFaults calls fail
\* and in which the file index of "a" may be overwritten with a bad line.
InitRetry == InitWith({"md5"}, {FullFeatures}, {"new", "old"}, MaxFaults, MaxOps - 1)

NextRetry ==
  \/ DoMkdir(pA)
  \/ \E f \in {pF, pAF}, x \in Data : DoPut("Put", f, x)
  \/ \E d \in {<<>>, pA} : DoList(d)
  \/ DoRmdir(pA)
  \/ DoNewFs
  \/ Tamper(pathJoin(<<hasher(pA), MapName>>), BadLine)

SpecRetry == InitRetry /\ [][NextRetry]_vars

\* Directories whose names have a space or a slash made and removed under
\* each hash type, and the process started again, on a base Fs of which
\* MaxFaults calls fail and whose root index may be overwritten with a bad line.
pASpB == <<"a", SP, "b">>
LoadDirs == {pA, pASpB, pAB}
InitLoad == InitWith(HashTypes, {FullFeatures}, {"new"}, MaxFaults, MaxOps - 1)

NextLoad ==
  \/ \E d \in LoadDirs : DoMkdir(d)
  \/ \E d \in LoadDirs : DoRmdir(d)
  \/ DoNewFs
  \/ Tamper(MapName, BadLine)

SpecLoad == InitLoad /\ [][NextLoad]_vars

\* Names with a newline: directories made and moved, files put and copied, on
\* a base Fs that does not fail.
pENL == <<"e", NL>>
pFNL == <<"f", NL>>
pGNL == <<"g", NL>>
NewlineDirs == {pA, pENL}
NewlineMoves == {<<pA, pENL>>, <<pENL, pA>>}
NewlineFiles == {pF, pFNL}
NewlineCopies == {<<pF, pG>>, <<pF, pGNL>>}

NextNewline ==
  \/ \E d \in NewlineDirs : DoMkdir(d)
  \/ \E m \in NewlineMoves : DoDirMove(m[1], m[2])
  \/ \E f \in NewlineFiles, x \in Data : DoPut("Put", f, x)
  \/ \E c \in NewlineCopies : DoCopy(c[1], c[2])

SpecNewline == Init /\ [][NextNewline]_vars

\* Longer behaviours of Mkdir and Purge alone, on "a" and "a/b", on a base Fs
\* of which MaxFaults calls fail.
InitDeep == InitWith({"md5"}, {FullFeatures}, {"new"}, MaxFaults, MaxOps + 1)

NextDeep ==
  \/ \E d \in {pA, pAB} : DoMkdir(d)
  \/ \E d \in {<<>>, pA} : DoPurge(d)

SpecDeep == InitDeep /\ [][NextDeep]_vars

\* Events of the base Fs on the keys of files and on other keys, with files
\* put in the root and in "a" and the process started again, on a base Fs of
\* which MaxFaults calls fail.
EntryTypes == {"EntryObject", "EntryDirectory"}
\* The key of the object leaf of the file n of the directory D.
objectKey(D, n, leaf) == pathJoin(<<hasher(D), hasher(n), leaf>>)
NotifyDirs == {<<>>, pA}
NotifyNames == {pF}
NotifyKeys ==
  {objectKey(D, n, DataName) : D \in NotifyDirs, n \in NotifyNames}
    \cup {objectKey(pA, pF, NameName), DataName, <<"x", SL>> \o DataName,
          <<"x", SL, "x", SL>> \o DataName, pathJoin(<<hasher(pA), <<"x">>, DataName>>)}

InitNotify == InitWith({"md5", "none"}, {FullFeatures}, {"new"}, MaxFaults, MaxOps - 1)

NextNotify ==
  \/ DoMkdir(pA)
  \/ \E f \in {pF, pAF}, x \in Data : DoPut("Put", f, x)
  \/ DoNewFs
  \/ \E k \in NotifyKeys, t \in EntryTypes : DoNotify(k, t)

SpecNotify == InitNotify /\ [][NextNotify]_vars

\* The successful runs of Mkdir, Put, Copy and DirMove on the files f, g and
\* a/f and the directories a and e: a step is taken only when the operation
\* returns nil.
NameMoves == {<<pA, pE>>, <<pE, pA>>}

NextNames ==
  \/ DoMkdir(pA) /\ last'.err = NoErr
  \/ \E f \in {pF, pG, pAF}, x \in Data : DoPut("Put", f, x) /\ last'.err = NoErr
  \/ \E c \in Copies : DoCopy(c[1], c[2]) /\ last'.err = NoErr
  \/ \E m \in NameMoves : DoDirMove(m[1], m[2]) /\ last'.err = NoErr

SpecNames == Init /\ [][NextNames]_vars

\* Recursive listings of the root and of a, with a base call that may fail and
\* a callback that may fail, over the directories a and a/b and the files f and
\* a/f.
MaxTranches == 3

InitListR == InitWith({"md5"}, {FullFeatures}, {"new"}, MaxFaults, MaxOps)

NextListR ==
  \/ \E d \in {pA, pAB} : DoMkdir(d)
  \/ \E f \in {pF, pAF}, x \in Data : DoPut("Put", f, x)
  \/ DoPurge(pA)
  \/ \E d \in {<<>>, pA}, k \in 0..MaxTranches : DoListR(d, k)

SpecListR == InitListR /\ [][NextListR]_vars

\* Listings of the root by both builds, with a base call that may fail, over
\* the directory a and the files f and a: the file a cannot be fetched while
\* the directory a is indexed, and f cannot once a Remove has purged it and
\* failed to write the file index.
InitList == InitWith({"md5"}, {FullFeatures}, {"new", "old"}, MaxFaults, MaxOps - 1)

NextList ==
  \/ DoMkdir(pA)
  \/ \E f \in {pF, pA}, x \in Data : DoPut("Put", f, x)
  \/ DoRemove(pF)
  \/ DoList(<<>>)
  \/ DoNewFs

SpecList == InitList /\ [][NextList]_vars

\* Moves of a directory that holds a child and a grandchild, after purges of
\* the child, on a base Fs that does not fail.
pABC == <<"a", "/", "b", "/", "c">>

NextMove ==
  \/ \E d \in {pA, pAB, pABC} : DoMkdir(d)
  \/ \E d \in {pA, pAB} : DoPurge(d)
  \/ \E m \in NameMoves : DoDirMove(m[1], m[2])

SpecMove == Init /\ [][NextMove]_vars

\* A base Fs with none of the optional features Purge, DirMove, Copy,
\* PutStream and PutUnchecked, and one with all of them; the calls that need
\* them, over the directory a and the files f and a/f.
BareFeatures ==
  [FullFeatures EXCEPT !.Purge = FALSE, !.DirMove = FALSE, !.Copy = FALSE,
                       !.PutStream = FALSE, !.PutUnchecked = FALSE]
PutFns == {"Put", "PutStream", "PutUnchecked"}

InitBare == InitWith({"md5"}, {FullFeatures, BareFeatures}, {"new"}, 0, MaxOps - 1)

NextBare ==
  \/ DoMkdir(pA)
  \/ \E do \in PutFns, f \in {pF, pAF}, x \in Data : DoPut(do, f, x)
  \/ \E c \in Copies : DoCopy(c[1], c[2])
  \/ \E d \in {<<>>, pA} : DoPurge(d)
  \/ \E m \in NameMoves : DoDirMove(m[1], m[2])

SpecBare == InitBare /\ [][NextBare]_vars

\* The identity hash on a base Fs that does not fail: the directories a and
\* a/b, the file a/b/x and the root file f are made, listed and removed.
pABX == <<"a", "/", "b", "/", "x">>
CycleFiles == {pABX, pF}

InitCycle == InitWith({"none"}, {FullFeatures}, {"new", "old"}, 0, MaxOps + 1)

NextCycle ==
  \/ \E d \in {pA, pAB} : DoMkdir(d)
  \/ \E f \in CycleFiles, x \in Data : DoPut("Put", f, x)
  \/ \E d \in {<<>>, pAB} : DoList(d)
  \/ \E f \in CycleFiles : DoRemove(f)
  \/ \E d \in {pAB, pA} : DoRmdir(d)

SpecCycle == InitCycle /\ [][NextCycle]_vars

\* Listings of the root and of a by both builds, over the directories a and
\* a/b made, removed and purged and the file f, on a base Fs that does not
\* fail.
InitListing == InitWith({"md5", "none"}, {FullFeatures}, {"new", "old"}, 0, MaxOps)

NextListing ==
  \/ \E d \in {pA, pAB} : DoMkdir(d)
  \/ \E d \in {pA, pAB} : DoRmdir(d)
  \/ DoPurge(pA)
  \/ \E x \in Data : DoPut("Put", pF, x)
  \/ \E d \in {<<>>, pA} : DoList(d)

SpecListing == InitListing /\ [][NextListing]_vars

\* Calls of Fs.Put that run in goroutines of their own.  Nothing in the Fs
\* orders them (it holds no lock), so a call is a sequence of steps that
\* interleave with the steps of the other calls: the tests and toHash
\* (part_000:98-105), prepareDest (106-108), the put of the payload (109-118),
\* the insertion in entry.files (119-123), and in dirEntry.write the copy of
\* the file names (part_001:121-126) and the streaming of the lines to
\* base.Put (128-142).
MaxCallers == 2
Callers == 1..MaxCallers
ConcFiles == {pF, pG, pAF}

\* The steps that read or write the map entry.files.
MapSteps == {"insert", "names", "stream"}

Returned(rec, err) == [rec EXCEPT !.pc = "done", !.err = err]

\* The step of a call takes the memory and the base Fs to those of M and the
\* call of caller c to rec; a call that returns is the last operation.
Stepped(c, rec, M) ==
  /\ With(Normalize(M), LAMBDA N :
       /\ heap' = N.heap
       /\ arrs' = N.arrs
       /\ Path' = N.Path
       /\ Hash' = N.Hash)
  /\ objs' = M.objs
  /\ dirs' = M.dirs
  /\ calls' = MapPut(calls, c, rec)
  /\ last' = IF rec.pc = "done"
             THEN [op |-> "Put", a |-> rec.remote, b |-> rec.data, err |-> rec.err,
                   n |-> M.n, again |-> FALSE, out |-> <<>>]
             ELSE last
  /\ UNCHANGED <<hashType, feat, build, up, faults>>

\* part_000:98-105: the call begins, tests the name and looks up the directory.
PutBegin(c, remote, data) ==
  /\ CanStep
  /\ c \notin DOMAIN calls
  /\ ops' = ops - 1
  /\ With([pc |-> "prepare", remote |-> remote, data |-> data, entry |-> 0,
           fileHash |-> <<>>, names |-> <<>>, err |-> NoErr], LAMBDA rec :
     IF Contains(remote, NL)
     THEN Stepped(c, Returned(rec, <<"file name may not contain newline">>), Machine({}))
     ELSE With(toHash(Machine({}), remote), LAMBDA th :
          IF ~th.ok THEN Stepped(c, Returned(rec, <<"ErrorDirNotFound">>), Machine({}))
          ELSE Stepped(c, [rec EXCEPT !.entry = th.entry, !.fileHash = th.fileHash], Machine({}))))

\* The call of caller c is at position pc.
At(c, pc) == up /\ c \in DOMAIN calls /\ calls[c].pc = pc

\* part_000:106-108: prepareDest.
PutPrepare(c) ==
  /\ At(c, "prepare")
  /\ With(calls[c], LAMBDA rec :
     With(prepareDest(Machine({}), rec.remote, heap[rec.entry].Hash, rec.fileHash), LAMBDA r :
     Stepped(c, IF r.err # NoErr THEN Returned(rec, r.err) ELSE [rec EXCEPT !.pc = "data"], r.M)))
  /\ UNCHANGED ops

\* part_000:109-118: the payload is put.
PutData(c) ==
  /\ At(c, "data")
  /\ With(calls[c], LAMBDA rec :
     With(basePut(Machine({}), pathJoin(<<heap[rec.entry].Hash, rec.fileHash, DataName>>), rec.data),
          LAMBDA r :
     Stepped(c, IF r.err # NoErr THEN Returned(rec, Wrap("error creating data file", r.err))
                ELSE [rec EXCEPT !.pc = "insert"], r.M)))
  /\ UNCHANGED ops

\* part_000:119-123: entry.Files and files[base] = fileHash.
PutInsert(c) ==
  /\ At(c, "insert")
  /\ With(calls[c], LAMBDA rec :
     With(Files(Machine({}), rec.entry), LAMBDA r :
     IF r.err # NoErr THEN Stepped(c, Returned(rec, r.err), r.M)
     ELSE Stepped(c, [rec EXCEPT !.pc = "names"],
                  [r.M EXCEPT !.heap[rec.entry].files =
                                MapPut(@, pathSplit(rec.remote).file, rec.fileHash)])))
  /\ UNCHANGED ops

\* part_001:118-126: dirEntry.write copies the file names and sorts them.
PutNames(c) ==
  /\ At(c, "names")
  /\ With(calls[c], LAMBDA rec :
     IF ~heap[rec.entry].loaded THEN Stepped(c, Returned(rec, <<"map file is not loaded">>), Machine({}))
     ELSE Stepped(c, [rec EXCEPT !.pc = "stream",
                                 !.names = SortStrings(DOMAIN heap[rec.entry].files)], Machine({})))
  /\ UNCHANGED ops

\* A goroutine that streams no line.
streamedNone(files, names) == <<>>

\* The lines the goroutine of dirEntry.write streams for the names copied:
\* the hash of each is read from the map as it is then, "" for a name that
\* has left the map.
streamed(files, names) ==
  Flatten([k \in 1..Len(names) |->
             (IF names[k] \in DOMAIN files THEN files[names[k]] ELSE <<>>)
               \o <<SP>> \o names[k] \o <<NL>>])

\* part_001:128-142 and part_000:133-136: the lines are streamed to base.Put
\* and the call returns.
PutWrite(c) ==
  /\ At(c, "stream")
  /\ With(calls[c], LAMBDA rec :
     With(basePut(Machine({}), pathJoin(<<heap[rec.entry].Hash, MapName>>),
                  streamed(heap[rec.entry].files, rec.names)), LAMBDA r :
     Stepped(c, Returned(rec, r.err), r.M)))
  /\ UNCHANGED ops

\* Two calls are at steps on the map of the same directory and one of the
\* steps writes it: a data race, which the Go runtime may detect ("fatal
\* error: concurrent map writes", "concurrent map read and map write") and
\* which then ends the process; when it does not, the steps take effect one
\* after the other.
PutRace(c) ==
  /\ up /\ c \in DOMAIN calls /\ calls[c].pc \in MapSteps
  /\ \E d \in DOMAIN calls \ {c} :
       /\ calls[d].pc \in MapSteps
       /\ calls[d].entry = calls[c].entry
       /\ "insert" \in {calls[c].pc, calls[d].pc}
  /\ heap' = NoMemory.heap /\ arrs' = NoMemory.arrs
  /\ Path' = NoMemory.Path /\ Hash' = NoMemory.Hash
  /\ up' = FALSE
  /\ calls' = EmptyMap
  /\ last' = [op |-> "Put", a |-> calls[c].remote, b |-> calls[c].data,
              err |-> <<"fatal error: concurrent map writes">>, n |-> 0,
              again |-> FALSE, out |-> <<>>]
  /\ UNCHANGED <<hashType, feat, build, objs, dirs, faults, ops>>

\* Calls of Put in goroutines, all to begin, with the directory a made (in one
\* step) at any time, on a base Fs that does not fail.
InitConc == InitWith({"md5"}, {FullFeatures}, {"new"}, 0, MaxCallers + 1)

NextConc ==
  \/ DoMkdir(pA)
  \/ \E c \in Callers, f \in ConcFiles, x \in Data : PutBegin(c, f, x)
  \/ \E c \in Callers : PutPrepare(c)
  \/ \E c \in Callers : PutData(c)
  \/ \E c \in Callers : PutInsert(c)
  \/ \E c \in Callers : PutNames(c)
  \/ \E c \in Callers : PutWrite(c)
  \/ \E c \in Callers : PutRace(c)

SpecConc == InitConc /\ [][NextConc]_vars

\* A call of dirMap.write or dirEntry.write, step by step.  The lines are
\* sorted, then a goroutine writes them one by one to the write end of an
\* io.Pipe and closes it (part_001:267-273, 135-141) while base.Put reads the
\* read end (part_001:274, 142).  A Write to an io.Pipe returns when the other
\* end has read the bytes or has been closed, and the read end is closed
\* nowhere: the goroutine moves on only as base.Put reads.  base.Put reads up
\* to the end of the stream and stores the object, or returns an error at any
\* point before.
Writer == 0
PipeKeys == {<<>>, pA}

\* The lines dirMap.write (dir = "") or dirEntry.write of the indexed
\* directory dir streams.
linesOf(dir) ==
  IF dir = <<>> THEN readLines(rootIndexBytes(Machine({})))
  ELSE readLines(fileIndexBytes(heap[Path[dir]].files))
\* The object the lines go to.
keyOf(dir) ==
  IF dir = <<>> THEN MapName ELSE pathJoin(<<heap[Path[dir]].Hash, MapName>>)

\* The write in flight is at rec.
Piped(rec) ==
  /\ calls' = MapPut(calls, Writer, rec)
  /\ UNCHANGED <<hashType, feat, build, heap, arrs, Path, Hash, dirs, up, last>>

\* part_001:252-266, 117-134: the call begins: names sorted, pipe made, the
\* goroutine started, base.Put called.
WriteBegin(dir) ==
  /\ CanStep
  /\ Writer \in DOMAIN calls => calls[Writer].closed /\ calls[Writer].put # "reading"
  /\ dir \in DOMAIN Path
  /\ dir # <<>> => heap[Path[dir]].loaded
  /\ Piped([pc |-> "pipe", key |-> keyOf(dir), lines |-> linesOf(dir), sent |-> 0,
            closed |-> FALSE, put |-> "reading"])
  /\ ops' = ops - 1
  /\ UNCHANGED <<objs, faults>>

Piping == up /\ Writer \in DOMAIN calls

\* part_001:269, 138: pw.Write of the next line returns, base.Put having read it.
PipeTransfer ==
  /\ Piping
  /\ calls[Writer].put = "reading"
  /\ calls[Writer].sent < Len(calls[Writer].lines)
  /\ Piped([calls[Writer] EXCEPT !.sent = @ + 1])
  /\ UNCHANGED <<objs, faults, ops>>

\* part_001:271, 140: after the last line, pw.Close().
PipeClose ==
  /\ Piping
  /\ ~calls[Writer].closed
  /\ calls[Writer].sent = Len(calls[Writer].lines)
  /\ Piped([calls[Writer] EXCEPT !.closed = TRUE])
  /\ UNCHANGED <<objs, faults, ops>>

\* part_001:274, 142: base.Put reads the end of the stream, stores the object
\* and returns nil.
PipeEOF ==
  /\ Piping
  /\ calls[Writer].put = "reading"
  /\ calls[Writer].closed
  /\ Piped([calls[Writer] EXCEPT !.put = "ok"])
  /\ objs' = MapPut(objs, calls[Writer].key,
                    Flatten([k \in 1..Len(calls[Writer].lines) |->
                               calls[Writer].lines[k] \o <<NL>>]))
  /\ UNCHANGED <<faults, ops>>

\* part_001:274, 142: base.Put returns an error, having read what it has.
PipeFail ==
  /\ Piping
  /\ calls[Writer].put = "reading"
  /\ faults > 0
  /\ Piped([calls[Writer] EXCEPT !.put = "failed"])
  /\ faults' = faults - 1
  /\ UNCHANGED <<objs, ops>>

\* Writes of the root index and of the file index of a, in steps, between
\* calls of Mkdir and Put (each in one step); the goroutine and base.Put run
\* whenever they can.
InitPipe == InitWith({"md5"}, {FullFeatures}, {"new"}, MaxFaults, MaxOps)

NextPipe ==
  \/ \E d \in {pA, pAB} : DoMkdir(d)
  \/ \E f \in {pF, pAF}, x \in Data : DoPut("Put", f, x)
  \/ \E d \in PipeKeys : WriteBegin(d)
  \/ PipeTransfer
  \/ PipeClose
  \/ PipeEOF
  \/ PipeFail

SpecPipe ==
  /\ InitPipe /\ [][NextPipe]_vars
  /\ WF_vars(PipeTransfer) /\ WF_vars(PipeClose) /\ WF_vars(PipeEOF)

\* Files whose names have a space put, removed and listed in the root under
\* each hash type, by both builds, the process started again at any time, on
\* a base Fs that does not fail.
pFSpG == <<"f", SP, "g">>
SpaceFiles == {pF, pG, pFSpG}

InitIndex == InitWith(HashTypes, {FullFeatures}, {"new", "old"}, 0, MaxOps - 1)

NextIndex ==
  \/ \E f \in SpaceFiles, x \in Data : DoPut("Put", f, x)
  \/ \E f \in SpaceFiles : DoRemove(f)
  \/ DoList(<<>>)
  \/ DoNewFs

SpecIndex == InitIndex /\ [][NextIndex]_vars

\* ------------------------------------------------------------------ claims

\* The state, as the machine of an operation for which no base call fails.
Now == Machine({})
\* The entries List(dir) gives in M, each by its kind and its remote.
Entries(M, dir) == {[kind |-> it.kind, remote |-> it.remote] : it \in List(M, dir).val}
\* The entries es of a directory under src, as they read under dst.
Moved(es, src, dst) == {[it EXCEPT !.remote = Rebase(@, src, dst)] : it \in es}

\* The subtree of A is in order: every directory of it has its directory in
\* the base Fs, and every child it holds is the indexed entry of its path.
Tidy(A) ==
  \A p \in DOMAIN Path : Under(p, A) =>
    /\ baseDirExists(Now, hasher(p))
    /\ \A k \in 1..heap[Path[p]].len :
         With(arrs[heap[Path[p]].arr][k], LAMBDA c :
           heap[c].Path \in DOMAIN Path /\ Path[heap[c].Path] = c)

\* C1: a DirMove(A -> B) of an indexed directory A other than the root, whose
\* subtree is in order, to a destination B that is not indexed, on a base Fs
\* that does not fail, returns success; every directory of A's subtree is
\* then gone from the index, what List gave for it is what List gives for its
\* counterpart under B, and List(A) returns directory-not-found.
C1_DirMoveRelocatesSubtree ==
  [][\A m \in Moves :
       (/\ last'.op = "DirMove" /\ last'.a = m[1] /\ last'.b = m[2]
        /\ m[1] # <<>> /\ m[1] \in DOMAIN Path /\ m[2] \notin DOMAIN Path
        /\ Tidy(m[1]))
       => /\ last'.err = NoErr
          /\ \A p \in DOMAIN Path : Under(p, m[1]) =>
               /\ p \notin DOMAIN Path'
               /\ Moved(Entries(Now, p), m[1], m[2]) = Entries(Now', Rebase(p, m[1], m[2]))
          /\ List(Now', m[1]).err = <<"ErrorDirNotFound">>]_vars

\* D has a file in its file index or a child directory that is indexed.
Occupied(D) ==
  \/ DOMAIN Files(Now, Path[D]).val # {}
  \/ \E p \in DOMAIN Path : p # <<>> /\ parentPathOf(p) = D

\* C2: Rmdir(D) of an indexed directory D other than the root returns
\* directory-not-empty, and leaves D indexed, exactly when D has a file or an
\* indexed child directory; otherwise it returns success and D is gone from
\* both indices.
C2_RmdirNotEmptyIffOccupied ==
  [][\A D \in TreeDirs \ {<<>>} :
       (last'.op = "Rmdir" /\ last'.a = D /\ D \in DOMAIN Path)
       => IF Occupied(D)
          THEN last'.err = <<"ErrorDirectoryNotEmpty">> /\ D \in DOMAIN Path'
          ELSE /\ last'.err = NoErr
               /\ D \notin DOMAIN Path'
               /\ hasher(D) \notin DOMAIN Hash']_vars

\* The indexed entries: those a path or a hash leads to.
IndexedEntries == {Path[p] : p \in DOMAIN Path} \cup {Hash[h] : h \in DOMAIN Hash}
\* How many times entry e is among the Children of entry q.
TimesIn(e, q) == Cardinality({k \in 1..heap[q].len : arrs[heap[q].arr][k] = e})

\* C3: every indexed entry is indexed under its own path and under the hash
\* of its path, every indexed entry other than the root is exactly once among
\* the Children of its Parent, and no two indexed entries have the same path
\* or the same hash.
C3_IndexWellFormed ==
  /\ \A p \in DOMAIN Path : heap[Path[p]].Path = p
  /\ \A h \in DOMAIN Hash : heap[Hash[h]].Hash = h
  /\ \A e \in IndexedEntries :
       /\ heap[e].Hash = hasher(heap[e].Path)
       /\ heap[e].Path # <<>> => heap[e].Parent # 0 /\ TimesIn(e, heap[e].Parent) = 1
  /\ \A e1, e2 \in IndexedEntries :
       e1 # e2 => heap[e1].Path # heap[e2].Path /\ heap[e1].Hash # heap[e2].Hash

\* C3 witness: a DirMove under which a base call failed has left a tree of
\* four or more indexed directories.
C3_Witness ==
  /\ last.op = "DirMove" /\ last.err # NoErr /\ faults = 0
  /\ Cardinality(DOMAIN Path) >= 4
  /\ pE \in DOMAIN Path

\* C4: the root entry is in the path index and in the hash index.
C4_RootAlwaysIndexed ==
  up => <<>> \in DOMAIN Path /\ hasher(<<>>) \in DOMAIN Hash

\* C9: when Mkdir, Rmdir, Purge or DirMove has returned success, the root
\* index object of the base Fs holds the lines of the tree in memory (no object
\* at all standing for the tree of the root alone).
C9_RootIndexPersisted ==
  (last.op \in {"Mkdir", "Rmdir", "Purge", "DirMove"} /\ last.err = NoErr)
    => IF MapName \in DOMAIN objs THEN objs[MapName] = rootIndexBytes(Now)
       ELSE DOMAIN Path = {<<>>}

\* The file index of the indexed directory dir as the base Fs holds it.
StoredFiles(M, dir) ==
  With(pathJoin(<<M.heap[M.Path[dir]].Hash, MapName>>), LAMBDA key :
  IF key \in DOMAIN M.objs THEN parseFiles(readLines(M.objs[key]), EmptyMap).files
  ELSE EmptyMap)

\* What the Fs holds of the file remote, whose directory is indexed: its hash
\* in the file index of the directory, its name record and its payload (<<>>
\* for what is not there).
FileRecord(M, remote) ==
  With(toHash(M, remote), LAMBDA th :
  With(Files(M, th.entry).val, LAMBDA fl :
  With(pathJoin(<<M.heap[th.entry].Hash, th.fileHash>>), LAMBDA k :
  [index |-> IF pathBase(remote) \in DOMAIN fl THEN fl[pathBase(remote)] ELSE <<>>,
   name |-> IF pathJoin(<<k, NameName>>) \in DOMAIN M.objs
            THEN M.objs[pathJoin(<<k, NameName>>)] ELSE <<>>,
   data |-> IF pathJoin(<<k, DataName>>) \in DOMAIN M.objs
            THEN M.objs[pathJoin(<<k, DataName>>)] ELSE <<>>])))

\* C5: after a Copy(src, remote) that returned success, the file index of
\* remote's directory holds leaf(remote) -> Hash(leaf(remote)) in memory and in
\* the base Fs, List of that directory gives remote as a file, and the file
\* index entry, the name record and the payload of src are as before.
C5_CopyAddsFileIndexEntry ==
  [][\A c \in Copies :
       (last'.op = "Copy" /\ last'.a = c[1] /\ last'.b = c[2] /\ last'.err = NoErr)
       => /\ parentPathOf(c[2]) \in DOMAIN Path'
          /\ FileRecord(Now', c[2]).index = hasher(pathBase(c[2]))
          /\ pathBase(c[2]) \in DOMAIN StoredFiles(Now', parentPathOf(c[2]))
          /\ StoredFiles(Now', parentPathOf(c[2]))[pathBase(c[2])] = hasher(pathBase(c[2]))
          /\ FileItem(c[2]) \in List(Now', parentPathOf(c[2])).val
          /\ FileRecord(Now', c[1]) = FileRecord(Now, c[1])]_vars

\* The entries List gives for the directory of the file f in M, but f itself.
Others(M, f) == Entries(M, parentPathOf(f)) \ {[kind |-> "file", remote |-> f]}

\* C8: after a Put of D/n that returned success, on a base Fs that does not
\* fail, List(D) gives D/n as a file; after a Remove of D/n that returned
\* success, List(D) gives no file D/n; and either leaves the other files and
\* the child directories List(D) gives as they were.
C8_PutRemoveList ==
  [][\A f \in FileNames :
       /\ (last'.op = "Put" /\ last'.a = f /\ last'.err = NoErr)
          => /\ [kind |-> "file", remote |-> f] \in Entries(Now', parentPathOf(f))
             /\ Others(Now', f) = Others(Now, f)
       /\ (last'.op = "Remove" /\ last'.a = f /\ last'.err = NoErr)
          => /\ [kind |-> "file", remote |-> f] \notin Entries(Now', parentPathOf(f))
             /\ Others(Now', f) = Others(Now, f)]_vars

\* C6: a directory whose file index is not loaded and has no object in the
\* base Fs loads as the empty mapping; and after an Rmdir that failed because
\* the file index of its directory could not be loaded, that file index is
\* not loaded, so that the next access, when its read succeeds, gives the
\* mapping the base Fs holds.
C6_FailedLoadNotCached ==
  /\ \A p \in DOMAIN Path :
       (/\ ~heap[Path[p]].loaded
        /\ pathJoin(<<heap[Path[p]].Hash, MapName>>) \notin DOMAIN objs)
       => Files(Now, Path[p]).err = NoErr /\ Files(Now, Path[p]).val = EmptyMap
  /\ (/\ last.op = "Rmdir" /\ last.a \in DOMAIN Path
      /\ last.err # NoErr
      /\ Head(last.err) = "directory in a bad state, refusing to modify")
     => /\ ~heap[Path[last.a]].loaded
        /\ Files(Now, Path[last.a]).err = NoErr
             => Files(Now, Path[last.a]).val = StoredFiles(Now, last.a)

\* The (storageKey, logicalPath) pairs of the tree of M.
Pairs(M) == {<<M.heap[M.Path[p]].Hash, p>> : p \in DOMAIN M.Path}

\* C7: under each hash type, loadDirectoryMap of the bytes dirMap.write
\* streams for the tree gives a tree of the same (storageKey, logicalPath)
\* pairs.
C7_RootIndexRoundTrip ==
  up => With(loadDirectoryMap(Now, FALSE, rootIndexBytes(Now)), LAMBDA r :
             r.err = NoErr /\ Pairs(r.M) = Pairs(Now))

\* C10: a NewFs under which a call on the stored root index object failed
\* with an error other than object-not-found, or whose root index object
\* holds a line without a space, returns an error.
C10_UnreadableIndexSurfaced ==
  [][(last'.op = "NewFs" /\ MapName \in DOMAIN objs)
       => /\ faults' < faults => last'.err # NoErr
          /\ (\E k \in 1..Len(readLines(objs[MapName])) :
                 /\ readLines(objs[MapName])[k] # <<>>
                 /\ ~Contains(readLines(objs[MapName])[k], SP))
             => last'.err # NoErr]_vars

\* The step leaves the base Fs as it was and the memory as N has it.
LeavesAs(N) ==
  /\ heap' = N.heap /\ arrs' = N.arrs /\ Path' = N.Path /\ Hash' = N.Hash
  /\ objs' = objs /\ dirs' = dirs

\* C11: a Mkdir or a Put of a path with a newline, and a Copy to a path with a
\* newline of an object NewObject gave, return the error that refuses the
\* name, and leave the tree, the file indices and the base Fs as they were
\* (for Copy: as NewObject of the source left them).
C11_NewlineRejected ==
  [][/\ \A d \in NewlineDirs :
          (last'.op = "Mkdir" /\ last'.a = d /\ Contains(d, NL))
          => /\ last'.err = <<"directory name may not contain newline">>
             /\ LeavesAs(Now)
     /\ \A f \in NewlineFiles :
          (last'.op = "Put" /\ last'.a = f /\ Contains(f, NL))
          => /\ last'.err = <<"file name may not contain newline">>
             /\ LeavesAs(Now)
     /\ \A c \in NewlineCopies :
          (/\ last'.op = "Copy" /\ last'.a = c[1] /\ last'.b = c[2]
           /\ Contains(c[2], NL) /\ NewObject(Now, c[1]).err = NoErr)
          => /\ last'.err = <<"file name may not contain newline">>
             /\ LeavesAs(Normalize(NewObject(Now, c[1]).M))]_vars

\* C12: a Mkdir(P) right after a Mkdir(P) that returned success returns
\* success and leaves the entries, their parent links and Children, both
\* indices and the root index object of the base Fs as they were.
C12_MkdirIdempotent ==
  [][(last'.op = "Mkdir" /\ last'.again)
       => /\ last'.err = NoErr
          /\ heap' = heap /\ arrs' = arrs /\ Path' = Path /\ Hash' = Hash
          /\ (MapName \in DOMAIN objs') = (MapName \in DOMAIN objs)
          /\ MapName \in DOMAIN objs => objs'[MapName] = objs[MapName]]_vars

\* C12 witness: Mkdir("a/b") was called twice in a row and the first call
\* returned success.
C12_Witness ==
  last.op = "Mkdir" /\ last.again /\ last.a = pAB /\ MapName \in DOMAIN objs

\* The proper ancestors of the path p, the root among them.
RECURSIVE Ancestors(_)
Ancestors(p) == IF p = <<>> THEN {} ELSE {parentPathOf(p)} \cup Ancestors(parentPathOf(p))

\* C13: after a Mkdir(P) that returned success, P and every proper ancestor
\* of P are in the path index, each with the hash of its own path, and the
\* Parent of each but the root is the indexed entry of its parent path.
C13_MkdirIndexesChain ==
  (last.op = "Mkdir" /\ last.err = NoErr)
    => \A q \in {last.a} \cup Ancestors(last.a) :
         /\ q \in DOMAIN Path
         /\ heap[Path[q]].Path = q
         /\ heap[Path[q]].Hash = hasher(q)
         /\ q # <<>> => /\ parentPathOf(q) \in DOMAIN Path
                        /\ heap[Path[q]].Parent = Path[parentPathOf(q)]

\* C14: an event of type t on the key <dirKey>/<fileKey>/data, dirKey being
\* the hash of an indexed directory D whose file index maps the name n to
\* fileKey, with no base call failing, makes one call of notify, with the path
\* of D joined with n and with t.
C14_NotifyLogicalPath ==
  [][\A D \in NotifyDirs, n \in NotifyNames, t \in EntryTypes :
       (/\ last'.op = "Notify" /\ last'.a = objectKey(D, n, DataName) /\ last'.b = t
        /\ faults' = faults
        /\ D \in DOMAIN Path /\ heap[Path[D]].Hash = hasher(D)
        /\ n \in DOMAIN Files(Now, Path[D]).val
        /\ Files(Now, Path[D]).val[n] = hasher(n))
       => last'.out = <<[path |-> pathJoin(<<D, n>>), typ |-> t]>>]_vars

\* The directory key and the file key wrappedNotify takes from the key k.
KeyDir(k) == joinSlash(SubSeq(splitSlash(k), 1, Len(splitSlash(k)) - 2))
KeyFile(k) == splitSlash(k)[Len(splitSlash(k)) - 1]
\* The key k is one for which there is nothing to notify.
Ignored(k) ==
  \/ splitSlash(k)[Len(splitSlash(k))] # DataName
  \/ Len(splitSlash(k)) < 3
  \/ KeyDir(k) \notin DOMAIN Hash
  \/ \A n \in DOMAIN Files(Now, Hash[KeyDir(k)]).val :
       Files(Now, Hash[KeyDir(k)]).val[n] # KeyFile(k)

NameRecord(D, n) ==
  With(pathJoin(<<heap[Path[D]].Hash, Files(Now, Path[D]).val[n], NameName>>), LAMBDA k :
  IF k \in DOMAIN objs THEN objs[k] ELSE <<>>)

\* C16: after successful runs of Mkdir, Put, Copy and DirMove only, for every
\* indexed directory D and every name n of its file index, the name record at
\* <dirKey>/<fileKey>/name is the path of D joined with n, followed by a
\* newline.
C16_NameRecordsCurrent ==
  \A D \in DOMAIN Path :
    Files(Now, Path[D]).err = NoErr
      => \A n \in DOMAIN Files(Now, Path[D]).val :
           NameRecord(D, n) = pathJoin(<<D, n>>) \o <<NL>>

\* The directories of the tranches of a recursive listing, in order.
TrancheDirs(out) == [i \in 1..Len(out) |-> out[i].dir]
\* What ListR(dir) delivers from the state M when nothing fails.
Reference(M, dir) == TrancheDirs(ListR(M, dir, 0).val)

\* C17: ListR(dir) calls the callback at most once for a directory, and for a
\* directory other than dir only after it has called it for the parent; the
\* directories it delivers are the first ones of the listing in which nothing
\* fails, all of them when it returns nil; a callback that fails at its call k
\* makes ListR return that error after exactly k calls.
C17_ListRTranches ==
  [][last'.op = "ListR"
       => With(TrancheDirs(last'.out), LAMBDA ds :
          With(Reference(Now, last'.a), LAMBDA ref :
            /\ \A i, j \in 1..Len(ds) : ds[i] = ds[j] => i = j
            /\ \A i \in 2..Len(ds) : \E j \in 1..(i - 1) : ds[j] = parentPathOf(ds[i])
            /\ Len(ds) <= Len(ref) /\ ds = SubSeq(ref, 1, Len(ds))
            /\ last'.err = NoErr => ds = ref /\ last'.b[1] \notin 1..Len(ds)
            /\ (last'.b[1] \in 1..Len(ref) /\ faults' = faults)
                 => last'.err = <<"callback">> /\ Len(ds) = last'.b[1]))]_vars

\* The paths of the child directories of the indexed directory D.
ChildDirs(M, D) ==
  {M.heap[Children(M, M.Path[D])[k]].Path : k \in 1..Len(Children(M, M.Path[D]))}
\* The paths of the files of the file index of D that NewObject can fetch.
Resolvable(M, D) ==
  {pathJoin(<<D, n>>) : n \in {m \in DOMAIN Files(M, M.Path[D]).val :
                                 NewObject(M, pathJoin(<<D, m>>)).err = NoErr}}

\* C18: a List of an indexed directory D whose file index loads, with no base
\* call failing, returns nil and gives the child directories of D and the
\* files of its file index that can be fetched, whether or not some file of
\* the index cannot be fetched.
C18_ListOmitsOnlyFailedFile ==
  [][(/\ last'.op = "List" /\ last'.a \in DOMAIN Path /\ faults' = faults
      /\ Files(Now, Path[last'.a]).err = NoErr)
     => /\ last'.err = NoErr
        /\ Entries(Now, last'.a)
             = {[kind |-> "dir", remote |-> p] : p \in ChildDirs(Now, last'.a)}
               \cup {[kind |-> "file", remote |-> p] : p \in Resolvable(Now, last'.a)}]_vars

\* The indexed directories at or beneath the directory P.
Subtree(P) == {d \in DOMAIN Path : Under(d, P)}

\* C19: after a Purge of an indexed directory P, of the directories of the
\* subtree of P that had a container in the base Fs, those whose container
\* is still there lie on one line of descent (the directory whose delete
\* failed and its ancestors: every sibling subtree was deleted), and Purge
\* returns an error when one is left.
C19_PurgeBestEffort ==
  [][(last'.op = "Purge" /\ last'.a \in DOMAIN Path)
     => With({d \in Subtree(last'.a) : hasher(d) \in dirs /\ hasher(d) \in dirs'}, LAMBDA left :
          /\ \A p, q \in left : Under(p, q) \/ Under(q, p)
          /\ left # {} => last'.err # NoErr)]_vars

\* The lines of the root index the base Fs holds in M.
PersistedLines(M) ==
  IF MapName \notin DOMAIN M.objs THEN {}
  ELSE With(readLines(M.objs[MapName]), LAMBDA ls : {ls[i] : i \in 1..Len(ls)})

\* C20: a Purge of an indexed directory P that deletes the container of a
\* directory of the subtree of P has deleted that of each of its descendants
\* in the subtree; a directory it takes out of Path or of Hash has had its
\* container deleted; and when its write of the root index does not fail, the
\* root index in the base Fs is the one in memory, with no line for a
\* directory it took out, and Purge returns an error, that of the base Fs,
\* when a directory of the subtree is still indexed.
C20_PurgeOrderAndIndex ==
  [][(last'.op = "Purge" /\ last'.a \in DOMAIN Path)
     => /\ \A p, q \in Subtree(last'.a) :
             (p # q /\ Under(p, q) /\ hasher(q) \in dirs /\ hasher(q) \notin dirs')
               => hasher(p) \notin dirs'
        /\ \A p \in DOMAIN Path \ DOMAIN Path' :
             baseDirExists(Now, hasher(p)) /\ ~baseDirExists(Now', hasher(p))
        /\ \A h \in DOMAIN Hash \ DOMAIN Hash' :
             baseDirExists(Now, h) /\ ~baseDirExists(Now', h)
        /\ \A F \in Faults :
             With(Purge(Machine(F), last'.a), LAMBDA r :
               (/\ r.M.objs = objs' /\ r.M.dirs = dirs' /\ r.err = last'.err
                /\ r.M.n = last'.n /\ Cardinality(F) = faults - faults'
                /\ r.M.n \notin F)
               => /\ MapName \in DOMAIN objs' /\ objs'[MapName] = rootIndexBytes(Now')
                  /\ \A p \in DOMAIN Path \ DOMAIN Path' :
                       (heap[Path[p]].Hash \o <<SP>> \o p) \notin PersistedLines(Now')
                  /\ (Subtree(last'.a) \cap DOMAIN Path' # {})
                       => last'.err \in {IOError, <<"ErrorDirNotFound">>})]_vars

\* The events of the kind ev in the trace log, in order.
Events(log, ev) == SelectSeq(log, LAMBDA e : e.ev = ev)
\* In the trace log the base move of the directory q comes after a base move
\* of every indexed directory beneath q.
DescendantsFirst(log, q) ==
  \A j \in 1..Len(log) :
    (log[j].ev = "move" /\ log[j].src = hasher(q))
      => \A p \in Subtree(q) \ {q} :
           \E i \in 1..(j - 1) : log[i].ev = "move" /\ log[i].src = hasher(p)
\* In the directory map ix every path at or beneath dst has its parent
\* path indexed, with the entry that is its Parent.
ParentsRegistered(ix, dst) ==
  \A p \in DOMAIN ix.Path :
    (Under(p, dst) /\ p # <<>>)
      => /\ parentPathOf(p) \in DOMAIN ix.Path
         /\ ix.Path[parentPathOf(p)] = ix.Parent[p]

\* C21: in a DirMove(src, dst) that passes its tests, whichever base call
\* fails, the base move of a directory of the subtree of src is issued after
\* that of each directory beneath it, and after each change DirMove makes to
\* the directory map every path indexed at or beneath dst has its parent
\* indexed.
C21_DirMoveChildrenFirst ==
  [][(last'.op = "DirMove" /\ last'.a \in DOMAIN Path /\ last'.b \notin DOMAIN Path)
     => \A F \in Faults, rev \in BOOLEAN :
          With(DirMove(Machine(F), last'.a, last'.b, rev).M.log, LAMBDA log :
            /\ \A q \in Subtree(last'.a) : DescendantsFirst(log, q)
            /\ \A k \in 1..Len(log) :
                 log[k].ev = "index" => ParentsRegistered(log[k], last'.b))]_vars

\* The writes of the root index in the trace log.
IndexWrites(log) == SelectSeq(log, LAMBDA e : e.ev = "put" /\ e.key = MapName)

\* C22: a DirMove(src, dst) with src indexed and dst not indexed, in which no
\* write of the root index fails, whatever else fails, ends with two writes
\* of the root index, after which the base Fs holds the root index of the
\* directory map in memory.
C22_DirMoveWritesBoth ==
  [][(last'.op = "DirMove" /\ feat.DirMove
      /\ last'.a \in DOMAIN Path /\ last'.b \notin DOMAIN Path)
     => \A F \in Faults, rev \in BOOLEAN :
          With(DirMove(Machine(F), last'.a, last'.b, rev), LAMBDA r :
            (\A i \in 1..Len(IndexWrites(r.M.log)) : IndexWrites(r.M.log)[i].ok)
              => /\ ~r.M.panic
                 /\ Len(IndexWrites(r.M.log)) = 2
                 /\ Len(r.M.log) >= 2
                 /\ SubSeq(r.M.log, Len(r.M.log) - 1, Len(r.M.log)) = IndexWrites(r.M.log)
                 /\ MapName \in DOMAIN r.M.objs
                 /\ r.M.objs[MapName] = rootIndexBytes(r.M))]_vars

\* The error of a call whose optional feature the base Fs lacks, <<>> for a
\* call that needs none or whose feature is there.
Unsupported(op) ==
  CASE op = "Purge" /\ ~feat.Purge -> <<"ErrorCantPurge">>
    [] op = "DirMove" /\ ~feat.DirMove -> <<"ErrorCantDirMove">>
    [] op = "Copy" /\ ~feat.Copy -> <<"ErrorCantCopy">>
    [] op = "PutStream" /\ ~feat.PutStream -> <<"unsupported">>
    [] op = "PutUnchecked" /\ ~feat.PutUnchecked -> <<"unsupported">>
    [] OTHER -> <<>>

\* C23: a Purge, a DirMove, a Copy of a file that is there, a PutStream or a
\* PutUnchecked on a base Fs that lacks the feature it needs returns an error
\* that says so, does not end the process, and leaves the directory map and
\* the base Fs as they were.
C23_MissingFeatureReported ==
  [][(/\ last'.op \in {"Purge", "DirMove", "Copy", "PutStream", "PutUnchecked"}
      /\ Unsupported(last'.op) # <<>>
      /\ last'.op = "Copy" => NewObject(Now, last'.a).err = NoErr)
     => /\ up'
        /\ last'.err # NoErr
        /\ last'.op \in {"Purge", "DirMove", "Copy"} => last'.err = Unsupported(last'.op)
        /\ UNCHANGED <<heap, arrs, Path, Hash, objs, dirs>>]_vars

C25_RmdirOrder ==
  [][(/\ last'.op = "Rmdir" /\ last'.a \in DOMAIN Path
      /\ Files(Now, Path[last'.a]).err = NoErr
      /\ ~Occupied(last'.a) /\ heap[Path[last'.a]].len = 0)
     => \A F \in {G \in Faults : Files(Machine(G), Path[last'.a]).err = NoErr} :
          With(Rmdir(Machine(F), last'.a), LAMBDA r :
            /\ ~r.M.panic
            /\ last'.a \notin DOMAIN r.M.Path
            /\ heap[Path[last'.a]].Hash \notin DOMAIN r.M.Hash
            /\ Len(IndexWrites(r.M.log)) = 1
            /\ IndexWrites(r.M.log)[1].ok
                 => /\ Events(r.M.log, "purge")
                         = <<[ev |-> "purge", key |-> heap[Path[last'.a]].Hash]>>
                    /\ r.M.log[Len(r.M.log)].ev = "purge"
                    /\ r.M.objs[MapName] = rootIndexBytes(r.M)
                    /\ r.err = IF r.M.n \in F THEN IOError ELSE NoErr
            /\ ~IndexWrites(r.M.log)[1].ok
                 => Events(r.M.log, "purge") = <<>> /\ r.err = IOError)]_vars

\* The directory map of M holds the root alone, with no child.
RootOnly(M) ==
  /\ DOMAIN M.Path = {<<>>}
  /\ DOMAIN M.Hash = {hasher(<<>>)}
  /\ M.heap[M.Path[<<>>]].len = 0
\* The root index the base Fs holds in M is the line of the root alone.
RootOnlyPersisted(M) ==
  /\ MapName \in DOMAIN M.objs
  /\ M.objs[MapName] = hasher(<<>>) \o <<SP>> \o <<NL>>
\* Mkdir(a/b); Put(a/b/x); List(a/b); Remove(a/b/x); Rmdir(a/b); Rmdir(a) run
\* from M: each returns nil, List gives the file a/b/x alone, and the
\* directory map and the stored root index end with the root alone.
ScriptSucceeds(M) ==
  With(Mkdir(M, pAB), LAMBDA r1 :
  With(put(r1.M, "Put", pABX, <<"x">>), LAMBDA r2 :
  With(List(r2.M, pAB), LAMBDA r3 :
  With(Try(NewObject(r3.M, pABX), LAMBDA ro : Remove(ro.M, ro.val)), LAMBDA r4 :
  With(Rmdir(r4.M, pAB), LAMBDA r5 :
  With(Rmdir(r5.M, pA), LAMBDA r6 :
    /\ \A r \in {r1, r2, r3, r4, r5, r6} : r.err = NoErr /\ ~r.M.panic
    /\ {[kind |-> it.kind, remote |-> it.remote] : it \in r3.val}
         = {[kind |-> "file", remote |-> pABX]}
    /\ RootOnly(r6.M)
    /\ RootOnlyPersisted(r6.M)))))))

\* No file of CycleFiles has its payload in the base Fs.
NoFileStored(M) ==
  \A f \in CycleFiles : pathJoin(<<hasher(f), DataName>>) \notin DOMAIN M.objs

\* C26: with the identity hash and no base call failing, the six calls of
\* the script succeed from the new Fs and leave the root alone in memory and
\* in the stored root index; and after any calls, when a Remove or an Rmdir
\* has returned nil, no directory but the root is indexed and no file is
\* stored, the directory map holds the root alone and the stored root index,
\* if there is one, has no line but that of the root.
C26_CreateRemoveCycle ==
  /\ (last.op = "NewFs" /\ objs = EmptyMap /\ dirs = {}) => ScriptSucceeds(Now)
  /\ (/\ last.op \in {"Remove", "Rmdir"} /\ last.err = NoErr
      /\ DOMAIN Path = {<<>>}
      /\ NoFileStored(Now))
     => /\ RootOnly(Now)
        /\ MapName \in DOMAIN objs
             => objs[MapName] \in {<<>>, hasher(<<>>) \o <<SP>> \o <<NL>>}
\* Rmdir(a) has returned nil as the sixth call and has left the root alone.
C26_Witness ==
  /\ last.op = "Rmdir" /\ last.a = pA /\ last.err = NoErr /\ ops = MaxOps + 1 - 6
  /\ RootOnly(Now) /\ RootOnlyPersisted(Now) /\ DOMAIN objs = {MapName}

\* The line of the record s = <<hash, name>>.
LineOf(s) == s[1] \o <<SP>> \o s[2]
\* bytes is made of one line for each record of S and no other, the lines in
\* ascending order of the names (S being given, there is one such bytes).
OneLineEach(bytes, S) ==
  With(readLines(bytes), LAMBDA L :
    /\ Len(L) = Cardinality(S)
    /\ {L[k] : k \in 1..Len(L)} = {LineOf(s) : s \in S}
    /\ \A k \in 1..(Len(L) - 1) :
         \E s, t \in S : L[k] = LineOf(s) /\ L[k + 1] = LineOf(t) /\ StrLess(s[2], t[2])
    /\ bytes = Flatten([k \in 1..Len(L) |-> L[k] \o <<NL>>]))
\* The records of the file index files.
FilePairs(files) == {<<files[n], n>> : n \in DOMAIN files}

\* C27: the bytes dirMap.write streams for the directory map have one line
\* per indexed directory, in ascending order of the paths, and the bytes
\* dirEntry.write streams for a loaded file index have one line per file
\* name, in ascending order of the names; the bytes are those the set of
\* records determines.
C27_EncodingsDeterministic ==
  up => /\ OneLineEach(rootIndexBytes(Now), Pairs(Now))
        /\ \A e \in IndexedEntries :
             heap[e].loaded => OneLineEach(fileIndexBytes(heap[e].files), FilePairs(heap[e].files))

\* The directory of the file remote: path.Split, without the trailing slash.
ParentDir(remote) == pathJoin(<<fsRoot, TrimSuffix(pathSplit(remote).dir, <<SL>>)>>)
\* The step leaves the directory map, the file indices and the base Fs as
\* they are in M.
LeavesAsIn(M) ==
  /\ up'
  /\ heap' = Normalize(M).heap /\ arrs' = Normalize(M).arrs
  /\ Path' = Normalize(M).Path /\ Hash' = Normalize(M).Hash
  /\ objs' = objs /\ dirs' = dirs
\* A call of Put, PutStream or PutUnchecked (newline says whether names with
\* a newline are looked at) whose directory is not indexed returns
\* fs.ErrorDirNotFound and leaves everything as it is; so does a Copy (copy
\* says whether a base Fs with no Copy is looked at) of an object NewObject
\* gave, everything being as NewObject left it.
NoParentFails(newline, copy) ==
  /\ (/\ up /\ last'.op \in PutFns
      /\ ParentDir(last'.a) \notin DOMAIN Path
      /\ newline \/ ~Contains(last'.a, NL))
     => last'.err = <<"ErrorDirNotFound">> /\ LeavesAsIn(Now)
  /\ (/\ up /\ last'.op = "Copy"
      /\ ParentDir(last'.b) \notin DOMAIN Path
      /\ NewObject(Now, last'.a).err = NoErr
      /\ newline \/ ~Contains(last'.b, NL)
      /\ copy \/ feat.Copy)
     => last'.err = <<"ErrorDirNotFound">> /\ LeavesAsIn(NewObject(Now, last'.a).M)

\* C28: Put, PutStream and PutUnchecked, and Copy on a base Fs that has Copy,
\* of a name without newline whose directory is not indexed return
\* fs.ErrorDirNotFound, index no directory, write nothing to the base Fs and
\* leave every file index as it is.
C28_NoParentFails == [][NoParentFails(FALSE, FALSE)]_vars
\* C28 as stated: the same of every Put and Copy whose directory is not
\* indexed, whatever the name and the base Fs.
C28_AsStated == [][NoParentFails(TRUE, TRUE)]_vars
\* A Copy of the file f to a/f, the directory a not indexed, has returned
\* fs.ErrorDirNotFound on a base Fs that has Copy.
C28_Witness ==
  /\ last.op = "Copy" /\ last.a = pF /\ last.b = pAF /\ feat.Copy
  /\ last.err = <<"ErrorDirNotFound">>
  /\ pA \notin DOMAIN Path

\* The indexed directories whose parent is the indexed directory D.
IndexedChildren(M, D) ==
  {p \in DOMAIN M.Path : M.heap[M.Path[p]].Parent = M.Path[D]}
\* The directory entries of the listing es.
DirEntries(es) == {it \in es : it.kind = "dir"}

\* C29: a List of an indexed directory D that returns nil gives one directory
\* entry for each indexed directory whose parent is D and no other directory
\* entry; the entry has the metadata of the base Fs when the hash of the child
\* is in the listing of the base Fs, and has none (size -1) when it is not.
C29_ListChildDirs ==
  [][(last'.op = "List" /\ last'.a \in DOMAIN Path /\ last'.err = NoErr)
     => With(DirEntries(List(Now, last'.a).val), LAMBDA ds :
          /\ {it.remote : it \in ds} = IndexedChildren(Now, last'.a)
          /\ Cardinality(ds) = Cardinality(IndexedChildren(Now, last'.a))
          /\ \A it \in ds :
               it.remote \in DOMAIN Path
                 => (it.known <=> heap[Path[it.remote]].Hash \in baseTopDirs(Now)))]_vars

\* The calls of callers c and d have both returned nil, having put two
\* different names in the same directory.
BothPut(c, d) ==
  /\ up /\ {c, d} \subseteq DOMAIN calls /\ c # d
  /\ calls[c].pc = "done" /\ calls[d].pc = "done"
  /\ calls[c].err = NoErr /\ calls[d].err = NoErr
  /\ calls[c].entry = calls[d].entry
  /\ calls[c].remote # calls[d].remote
\* The file names of the file index the base Fs holds for the entry e.
StoredNames(e) ==
  With(pathJoin(<<heap[e].Hash, MapName>>), LAMBDA key :
  IF key \in DOMAIN objs THEN DOMAIN parseFiles(readLines(objs[key]), EmptyMap).files
  ELSE {})

\* C30: when two calls of Put of two different names in one directory, run
\* in goroutines, have both returned nil, entry.files holds both names, and
\* the file index the base Fs holds has names of entry.files only and at
\* least one of the two (nothing makes it hold both: C30_Witness).
C30_ConcurrentPuts ==
  \A c, d \in Callers :
    BothPut(c, d)
      => With({pathSplit(calls[c].remote).file, pathSplit(calls[d].remote).file}, LAMBDA ns :
           /\ heap[calls[c].entry].loaded
           /\ ns \subseteq DOMAIN heap[calls[c].entry].files
           /\ StoredNames(calls[c].entry) \subseteq DOMAIN heap[calls[c].entry].files
           /\ StoredNames(calls[c].entry) \cap ns # {})
\* Both calls have returned nil, entry.files holds both names, and the file
\* index the base Fs holds has one of them only.
C30_Witness ==
  \E c, d \in Callers :
    /\ BothPut(c, d)
    /\ {pathSplit(calls[c].remote).file, pathSplit(calls[d].remote).file}
         \subseteq DOMAIN heap[calls[c].entry].files
    /\ pathSplit(calls[c].remote).file \in StoredNames(calls[c].entry)
    /\ pathSplit(calls[d].remote).file \notin StoredNames(calls[c].entry)

\* C31: every element of the Children of an indexed entry is the entry that
\* the path index holds for its path: no directory that was removed or
\* purged is still a child.
C31_ChildrenIndexed ==
  up => \A e \in IndexedEntries : \A k \in 1..heap[e].len :
          With(arrs[heap[e].arr][k], LAMBDA c :
            /\ heap[c].Path \in DOMAIN Path
            /\ Path[heap[c].Path] = c)

\* Entry e is the one the path index holds for its path.
InPathIndex(e) == heap[e].Path \in DOMAIN Path /\ Path[heap[e].Path] = e
\* Entry e is the one the hash index holds for its hash.
InHashIndex(e) == heap[e].Hash \in DOMAIN Hash /\ Hash[heap[e].Hash] = e

\* C32: the path index and the hash index hold the same entries: an entry,
\* indexed or left over, is in the path index under its path if and only if
\* it is in the hash index under its hash.
C32_IndicesAgree ==
  up => /\ {Path[p] : p \in DOMAIN Path} = {Hash[h] : h \in DOMAIN Hash}
        /\ \A e \in 1..Len(heap) : InPathIndex(e) <=> InHashIndex(e)
\* A Purge that failed has left an indexed directory beside the root and an
\* entry that is in neither index.
C32_Witness ==
  /\ up /\ last.op = "Purge" /\ last.err # NoErr
  /\ Cardinality(DOMAIN Path) >= 2
  /\ \E e \in 1..Len(heap) : ~InPathIndex(e) /\ ~InHashIndex(e)

\* C33: the goroutine of every write of an index that has begun ends: it
\* writes its last line and closes the pipe, whatever base.Put does.
C33_ProducerFinishes ==
  (Writer \in DOMAIN calls /\ ~calls[Writer].closed)
    ~> (Writer \in DOMAIN calls /\ calls[Writer].closed)

\* C34: every file name in the file index the base Fs holds for an indexed
\* directory has its payload <dirKey>/<fileKey>/data and its name record
\* <dirKey>/<fileKey>/name in the base Fs.
C34_IndexedFilesStored ==
  up => \A d \in DOMAIN Path :
          With(StoredFiles(Now, d), LAMBDA files :
          \A n \in DOMAIN files :
            /\ pathJoin(<<heap[Path[d]].Hash, files[n], DataName>>) \in DOMAIN objs
            /\ pathJoin(<<heap[Path[d]].Hash, files[n], NameName>>) \in DOMAIN objs)

\* The entry e as a new entry whose file index is not loaded.
Unloaded(M, e) == [M EXCEPT !.heap[e].loaded = FALSE, !.heap[e].files = EmptyMap]

\* C35: under each hash type, for an indexed entry whose file index is
\* loaded, dirEntry.write followed by the load of the file index into the
\* entry, not loaded, gives the file names and hashes the entry had.
C35_FileIndexRoundTrip ==
  up => \A e \in IndexedEntries :
          heap[e].loaded
            => With(entryWrite(Now, e), LAMBDA rw :
               With(Files(Unloaded(rw.M, e), e), LAMBDA rf :
                 /\ rw.err = NoErr
                 /\ rf.err = NoErr
                 /\ rf.val = heap[e].files))
====
